---- MODULE Spec2Model ----
(***************************************************************************)
(* Global block references: the variant resolver (resolveBlock.ts), the    *)
(* mongoose storage builder's blocks generator and the two-pass registry   *)
(* builder buildGlobalBlockSchemas.                                        *)
(***************************************************************************)
EXTENDS Integers, Sequences, FiniteSets, TLC

(* ------------------------------ bounds --------------------------------- *)
MaxGlobal == 2      \* length of payload.config.blocks
MaxInline == 2      \* length of field.blocks
MaxRefs == 2        \* length of an array-valued field.blockReferences

GlobalSlugs == {"x", "y", "z"}
FieldSlugs == {"x", "y"}
BlockTypes == GlobalSlugs \cup {"nonexistent"}
LocaleCodes == <<"en", "es">>

(* ------------------------------ helpers -------------------------------- *)
SeqsUpTo(S, n) == UNION {[1..k -> S] : k \in 0..n}

Range(s) == {s[k] : k \in 1..Len(s)}

IsInjective(s) == \A p, q \in 1..Len(s) : s[p] = s[q] => p = q

\* Array.prototype.find with the predicate (b) => b.slug === slug:
\* the first element whose slug matches, undefined when there is none
Undefined == [undefined |-> TRUE]

Null == [null |-> TRUE]

FindBySlug(blks, slug) ==
    IF \E k \in 1..Len(blks) : blks[k].slug = slug
    THEN blks[CHOOSE k \in 1..Len(blks) :
                 /\ blks[k].slug = slug
                 /\ \A j \in 1..(k - 1) : blks[j].slug # slug]
    ELSE Undefined

(* --------------------------- field tree model -------------------------- *)
TextField(name) == [type |-> "text", name |-> name]

\* a Block object; home and idx stand for the object's identity (toBe)
Block(slug, home, idx, fields) ==
    [slug |-> slug, home |-> home, idx |-> idx, fields |-> fields]

SlugRef(slug) == [kind |-> "string", slug |-> slug]

BlockRef(block) == [kind |-> "block", slug |-> block.slug, block |-> block]

NoReferences == [kind |-> "undefined", refs |-> <<>>]

AllGlobal == [kind |-> "GlobalBlocks", refs |-> <<>>]

ExplicitRefs(refs) == [kind |-> "array", refs |-> refs]

BlocksField(name, blks, blockReferences, localized) ==
    [type |-> "blocks", name |-> name, blocks |-> blks,
     blockReferences |-> blockReferences, localized |-> localized]

\* fields of the variants declared inline on a field
InlineFields == <<TextField("customField")>>

\* fields of the variant objects listed in field.blockReferences
RefFields == <<TextField("refField")>>

\* fields of the globally declared variants: x holds a polymorphic field
\* with policy all-global, y one with an explicit subset naming x and y
\* (mutual and self reference), z holds no polymorphic field
GlobalFields(slug) ==
    CASE slug = "x" -> <<TextField("title"),
                         BlocksField("nested", <<>>, AllGlobal, FALSE)>>
      [] slug = "y" -> <<BlocksField("nested", <<>>,
                            ExplicitRefs(<<SlugRef("x"), SlugRef("y")>>),
                            FALSE)>>
      [] OTHER -> <<TextField("content")>>

GlobalBlock(slug) == Block(slug, "global", 0, GlobalFields(slug))

\* payload.config.blocks: global slugs are unique
GlobalBlockLists ==
    {[k \in 1..Len(s) |-> GlobalBlock(s[k])] :
        s \in {t \in SeqsUpTo(GlobalSlugs, MaxGlobal) : IsInjective(t)}}

InlineBlockLists ==
    {[k \in 1..Len(s) |-> Block(s[k], "inline", k, InlineFields)] :
        s \in SeqsUpTo(FieldSlugs, MaxInline)}

RefEntries(k) ==
    {SlugRef(s) : s \in FieldSlugs}
        \cup {BlockRef(Block(s, "ref", k, RefFields)) : s \in FieldSlugs}

RefLists ==
    UNION {{r \in [1..n -> UNION {RefEntries(k) : k \in 1..n}] :
               \A k \in 1..n : r[k] \in RefEntries(k)} : n \in 0..MaxRefs}

ReferencePolicies ==
    {NoReferences, AllGlobal} \cup {ExplicitRefs(r) : r \in RefLists}

(* ------------------------------ resolver ------------------------------- *)
\* resolveRefs without the test ref === blockType on string entries
RECURSIVE resolveRefsAnyString(_, _, _, _)
resolveRefsAnyString(refs, k, blockType, configBlocks) ==
    IF k > Len(refs) THEN Undefined
    ELSE IF refs[k].kind = "string"
         THEN FindBySlug(configBlocks, blockType)
         ELSE IF refs[k].slug = blockType
              THEN refs[k].block
              ELSE resolveRefsAnyString(refs, k + 1, blockType, configBlocks)

RECURSIVE resolveRefs(_, _, _, _)
\* the for loop over field.blockReferences, from entry k on
resolveRefs(refs, k, blockType, configBlocks) ==
    IF k > Len(refs) THEN Undefined
    ELSE IF refs[k].kind = "string"
         THEN IF refs[k].slug = blockType
              THEN FindBySlug(configBlocks, blockType)
              ELSE resolveRefs(refs, k + 1, blockType, configBlocks)
         ELSE IF refs[k].slug = blockType
              THEN refs[k].block
              ELSE resolveRefs(refs, k + 1, blockType, configBlocks)

\* resolveBlock with the global lookup ahead of the inline one
resolveBlockGlobalFirst(blockType, field, configBlocks) ==
    LET globalBlock == FindBySlug(configBlocks, blockType)
        inlineBlock == FindBySlug(field.blocks, blockType)
    IN  IF field.blockReferences.kind = "GlobalBlocks"
               /\ globalBlock # Undefined
        THEN globalBlock
        ELSE IF inlineBlock # Undefined THEN inlineBlock
        ELSE IF field.blockReferences.kind = "array"
             THEN resolveRefs(field.blockReferences.refs, 1, blockType,
                              configBlocks)
        ELSE Undefined

resolveBlock(blockType, field, configBlocks) ==
    LET inlineBlock == FindBySlug(field.blocks, blockType)
    IN  IF inlineBlock # Undefined THEN inlineBlock
        ELSE IF field.blockReferences.kind = "GlobalBlocks"
             THEN FindBySlug(configBlocks, blockType)
        ELSE IF field.blockReferences.kind = "array"
             THEN resolveRefs(field.blockReferences.refs, 1, blockType,
                              configBlocks)
        ELSE Undefined

\* field.blockReferences pushes of getBlocksForField, from entry k on
RECURSIVE pushRefs(_, _, _, _)
pushRefs(result, refs, k, inlineSlugs) ==
    IF k > Len(refs) THEN result
    ELSE LET ref == refs[k]
             pushed == IF ref.kind = "string" THEN ref ELSE ref.block
         IN  IF ref.slug \notin inlineSlugs
             THEN pushRefs(Append(result, pushed), refs, k + 1, inlineSlugs)
             ELSE pushRefs(result, refs, k + 1, inlineSlugs)

RECURSIVE pushGlobals(_, _, _, _)
pushGlobals(result, globalBlocks, k, inlineSlugs) ==
    IF k > Len(globalBlocks) THEN result
    ELSE IF globalBlocks[k].slug \notin inlineSlugs
         THEN pushGlobals(Append(result, globalBlocks[k]), globalBlocks,
                          k + 1, inlineSlugs)
         ELSE pushGlobals(result, globalBlocks, k + 1, inlineSlugs)

\* getBlocksForField pushing onto field.blocks itself instead of a copy
getBlocksForFieldAliased(field, configBlocks) ==
    LET inlineSlugs == {field.blocks[k].slug : k \in 1..Len(field.blocks)}
        result ==
            IF field.blockReferences.kind = "undefined" THEN field.blocks
            ELSE IF field.blockReferences.kind = "GlobalBlocks"
                 THEN pushGlobals(field.blocks, configBlocks, 1, inlineSlugs)
            ELSE pushRefs(field.blocks, field.blockReferences.refs, 1,
                          inlineSlugs)
    IN  [result |-> result, fieldBlocks |-> result,
         configBlocks |-> configBlocks]

\* result: the returned array; fieldBlocks, configBlocks: field.blocks and
\* payload.config.blocks as the call leaves them (result is a spread copy,
\* so the pushes do not reach field.blocks)
getBlocksForField(field, configBlocks) ==
    LET inlineSlugs == {field.blocks[k].slug : k \in 1..Len(field.blocks)}
        result ==
            IF field.blockReferences.kind = "undefined" THEN field.blocks
            ELSE IF field.blockReferences.kind = "GlobalBlocks"
                 THEN pushGlobals(field.blocks, configBlocks, 1, inlineSlugs)
            ELSE pushRefs(field.blocks, field.blockReferences.refs, 1,
                          inlineSlugs)
    IN  [result |-> result, fieldBlocks |-> field.blocks,
         configBlocks |-> configBlocks]

(* --------------------------- storage builder --------------------------- *)
Attr(f, a, d) == IF a \in DOMAIN f THEN f[a] ELSE d

fieldAffectsData(field) == "name" \in DOMAIN field /\ field.type # "ui"

fieldIsPresentationalOnly(field) == field.type = "ui"

fieldIsVirtual(field) == Attr(field, "virtual", FALSE)

fieldShouldBeLocalized(field, parentIsLocalized) ==
    Attr(field, "localized", FALSE)

NoLocalization == [enabled |-> FALSE, localeCodes |-> <<>>]

Localization == [enabled |-> TRUE, localeCodes |-> LocaleCodes]

DefaultBuildSchemaOptions ==
    [allowIDField |-> FALSE, disableUnique |-> FALSE,
     draftsEnabled |-> FALSE, indexSortableFields |-> FALSE]

formatBaseSchema(buildSchemaOptions, field, parentIsLocalized) ==
    LET unique == ~buildSchemaOptions.disableUnique
                      /\ Attr(field, "unique", FALSE)
        sparse == /\ unique
                  /\ \/ fieldShouldBeLocalized(field, parentIsLocalized)
                     \/ buildSchemaOptions.draftsEnabled
                     \/ /\ fieldAffectsData(field)
                        /\ field.type # "group"
                        /\ field.type # "tab"
                        /\ Attr(field, "required", FALSE) # TRUE
    IN  [default |-> Attr(field, "defaultValue", Undefined),
         index |-> \/ Attr(field, "index", FALSE)
                   \/ unique
                   \/ buildSchemaOptions.indexSortableFields,
         required |-> FALSE,
         unique |-> unique,
         sparse |-> sparse,
         hidden |-> Attr(field, "hidden", FALSE)]

localizeSchema(entity, schema, localization, parentIsLocalized) ==
    IF fieldShouldBeLocalized(entity, parentIsLocalized)
           /\ localization.enabled
    THEN [localized |-> TRUE,
          type |-> [lc \in Range(localization.localeCodes) |-> schema]]
    ELSE schema

\* new mongoose.Schema({}, ...): an object on the heap, named by its address
NewSchema == [paths |-> <<>>, indexes |-> <<>>]

\* schema.index(definition, options)
SchemaIndex(heap, addr, definition, options) ==
    [heap EXCEPT ![addr].indexes =
        Append(@, [fields |-> definition, options |-> options])]

\* schema.add({[name]: descriptor})
SchemaAdd(heap, addr, name, descriptor) ==
    LET paths == heap[addr].paths
        entry == [name |-> name, schema |-> descriptor]
    IN  IF \E k \in 1..Len(paths) : paths[k].name = name
        THEN [heap EXCEPT ![addr].paths =
                 [k \in 1..Len(paths) |->
                     IF paths[k].name = name THEN entry ELSE paths[k]]]
        ELSE [heap EXCEPT ![addr].paths = Append(paths, entry)]

\* schema.path(path).discriminator(slug, blockSchema); path is <<name>> or
\* <<name, localeCode>>
Discriminator(heap, addr, path, slug, blockSchema) ==
    LET paths == heap[addr].paths
        disc == [slug |-> slug, schema |-> blockSchema]
        attach(d) ==
            IF Len(path) = 1
            THEN [d EXCEPT !.discriminators = Append(@, disc)]
            ELSE [d EXCEPT !.type[path[2]].discriminators = Append(@, disc)]
    IN  [heap EXCEPT ![addr].paths =
            [k \in 1..Len(paths) |->
                IF paths[k].name = path[1]
                THEN [paths[k] EXCEPT !.schema = attach(@)]
                ELSE paths[k]]]

text(heap, field, addr, payload, buildSchemaOptions, parentIsLocalized) ==
    LET baseSchema ==
            [base |-> formatBaseSchema(buildSchemaOptions, field,
                                       parentIsLocalized),
             type |-> IF Attr(field, "hasMany", FALSE)
                      THEN "[String]" ELSE "String"]
    IN  SchemaAdd(heap, addr, field.name,
                  localizeSchema(field, baseSchema,
                                 payload.config.localization,
                                 parentIsLocalized))

\* Map.prototype.get on the registry: a function from slugs to addresses
MapGet(map, key) == IF key \in DOMAIN map THEN map[key] ELSE 0

MapSet(map, key, value) ==
    [k \in DOMAIN map \cup {key} |-> IF k = key THEN value ELSE map[k]]

EmptyMap == [k \in {} |-> 0]

RECURSIVE addFieldSchema(_, _, _, _, _, _)
RECURSIVE subFieldsLoop(_, _, _, _, _, _, _)
RECURSIVE tabsLoop(_, _, _, _, _, _, _)
RECURSIVE buildSchema(_, _, _, _, _, _)
RECURSIVE blockFieldsLoop(_, _, _, _, _, _, _)
RECURSIVE inlineBlocksStep(_, _, _, _, _, _, _)
RECURSIVE buildSchemaFields(_, _, _, _, _, _, _)

\* globalBlocksStep without the processedSlugs test
RECURSIVE globalBlocksStepNoSkip(_, _, _, _)
globalBlocksStepNoSkip(st, configBlocks, k, globalBlockSchemas) ==
    IF k > Len(configBlocks) THEN st
    ELSE LET slug == configBlocks[k].slug
             preBuiltSchema == MapGet(globalBlockSchemas, slug)
         IN  IF preBuiltSchema # 0
             THEN globalBlocksStepNoSkip(
                      [st EXCEPT
                          !.blocksToAdd = Append(@,
                              [slug |-> slug, isInline |-> FALSE,
                               schema |-> preBuiltSchema]),
                          !.processedSlugs = @ \cup {slug}],
                      configBlocks, k + 1, globalBlockSchemas)
             ELSE globalBlocksStepNoSkip(st, configBlocks, k + 1,
                                         globalBlockSchemas)

\* STEP 2, policy all-global: payload.config.blocks.forEach, from entry k on
RECURSIVE globalBlocksStep(_, _, _, _)
globalBlocksStep(st, configBlocks, k, globalBlockSchemas) ==
    IF k > Len(configBlocks) THEN st
    ELSE LET slug == configBlocks[k].slug
             preBuiltSchema == MapGet(globalBlockSchemas, slug)
         IN  IF slug \notin st.processedSlugs /\ preBuiltSchema # 0
             THEN globalBlocksStep(
                      [st EXCEPT
                          !.blocksToAdd = Append(@,
                              [slug |-> slug, isInline |-> FALSE,
                               schema |-> preBuiltSchema]),
                          !.processedSlugs = @ \cup {slug}],
                      configBlocks, k + 1, globalBlockSchemas)
             ELSE globalBlocksStep(st, configBlocks, k + 1,
                                   globalBlockSchemas)

\* the explicit subset with a listed slug string marked as processed
\* whether the registry holds it or not
RECURSIVE blockReferencesStepClaiming(_, _, _, _, _, _, _)
blockReferencesStepClaiming(st, refs, k, field, payload, buildSchemaOptions, parentIsLocalized) ==
    IF k > Len(refs) THEN st
    ELSE LET blockRef == refs[k]
             slug == blockRef.slug
             blockSchema == Len(st.heap) + 1
             preBuiltSchema == MapGet(payload.db.globalBlockSchemas, slug)
             next(s) == blockReferencesStepClaiming(
                            s, refs, k + 1, field, payload,
                            buildSchemaOptions, parentIsLocalized)
         IN  IF slug \in st.processedSlugs THEN next(st)
             ELSE IF blockRef.kind # "string"
                  THEN next([heap |-> blockFieldsLoop(
                                          Append(st.heap, NewSchema),
                                          blockRef.block.fields, 1,
                                          blockSchema, payload,
                                          buildSchemaOptions,
                                          parentIsLocalized
                                              \/ field.localized),
                             blocksToAdd |-> Append(st.blocksToAdd,
                                 [slug |-> slug, isInline |-> TRUE,
                                  schema |-> blockSchema]),
                             processedSlugs |-> st.processedSlugs
                                                    \cup {slug}])
             ELSE IF preBuiltSchema # 0
                  THEN next([st EXCEPT
                                !.blocksToAdd = Append(@,
                                    [slug |-> slug, isInline |-> FALSE,
                                     schema |-> preBuiltSchema]),
                                !.processedSlugs = @ \cup {slug}])
             ELSE next([st EXCEPT !.processedSlugs = @ \cup {slug}])

\* STEP 2, explicit subset: field.blockReferences.forEach, from entry k on
RECURSIVE blockReferencesStep(_, _, _, _, _, _, _)
blockReferencesStep(st, refs, k, field, payload, buildSchemaOptions, parentIsLocalized) ==
    IF k > Len(refs) THEN st
    ELSE LET blockRef == refs[k]
             slug == blockRef.slug
             blockSchema == Len(st.heap) + 1
             preBuiltSchema == MapGet(payload.db.globalBlockSchemas, slug)
             next(s) == blockReferencesStep(s, refs, k + 1, field, payload,
                                            buildSchemaOptions,
                                            parentIsLocalized)
         IN  IF slug \in st.processedSlugs THEN next(st)
             ELSE IF blockRef.kind # "string"
                  THEN next([heap |-> blockFieldsLoop(
                                          Append(st.heap, NewSchema),
                                          blockRef.block.fields, 1,
                                          blockSchema, payload,
                                          buildSchemaOptions,
                                          parentIsLocalized
                                              \/ field.localized),
                             blocksToAdd |-> Append(st.blocksToAdd,
                                 [slug |-> slug, isInline |-> TRUE,
                                  schema |-> blockSchema]),
                             processedSlugs |-> st.processedSlugs
                                                    \cup {slug}])
             ELSE IF preBuiltSchema # 0
                  THEN next([st EXCEPT
                                !.blocksToAdd = Append(@,
                                    [slug |-> slug, isInline |-> FALSE,
                                     schema |-> preBuiltSchema]),
                                !.processedSlugs = @ \cup {slug}])
             ELSE next(st)

\* the localeCodes.forEach of STEP 3 for one collected block
RECURSIVE localeDiscriminators(_, _, _, _, _, _)
localeDiscriminators(heap, addr, field, toAdd, localeCodes, k) ==
    IF k > Len(localeCodes) THEN heap
    ELSE localeDiscriminators(
             Discriminator(heap, addr, <<field.name, localeCodes[k]>>,
                           toAdd.slug, toAdd.schema),
             addr, field, toAdd, localeCodes, k + 1)

\* STEP 3: blocksToAdd.forEach, from entry k on
RECURSIVE discriminatorsStep(_, _, _, _, _, _, _)
discriminatorsStep(heap, addr, field, blocksToAdd, k, payload, parentIsLocalized) ==
    IF k > Len(blocksToAdd) THEN heap
    ELSE discriminatorsStep(
             IF fieldShouldBeLocalized(field, parentIsLocalized)
                    /\ payload.config.localization.enabled
             THEN localeDiscriminators(heap, addr, field, blocksToAdd[k],
                      payload.config.localization.localeCodes, 1)
             ELSE Discriminator(heap, addr, <<field.name>>,
                                blocksToAdd[k].slug, blocksToAdd[k].schema),
             addr, field, blocksToAdd, k + 1, payload, parentIsLocalized)

\* the blocks generator taking every global variant when the field has no
\* reference policy
blocksDefaultAllGlobal(heap, field, addr, payload, buildSchemaOptions, parentIsLocalized) ==
    LET fieldSchema ==
            [base |-> formatBaseSchema(buildSchemaOptions, field,
                                       parentIsLocalized),
             type |-> "[blockType]",
             discriminators |-> <<>>]
        added == SchemaAdd(heap, addr, field.name,
                           localizeSchema(field, fieldSchema,
                                          payload.config.localization,
                                          parentIsLocalized))
        step1 == inlineBlocksStep(
                     [heap |-> added, blocksToAdd |-> <<>>,
                      processedSlugs |-> {}],
                     field.blocks, 1, field, payload, buildSchemaOptions,
                     parentIsLocalized)
        step2 ==
            IF field.blockReferences.kind = "array"
            THEN blockReferencesStep(step1, field.blockReferences.refs,
                                     1, field, payload,
                                     buildSchemaOptions,
                                     parentIsLocalized)
            ELSE globalBlocksStep(step1, payload.config.blocks, 1,
                                  payload.db.globalBlockSchemas)
    IN  discriminatorsStep(step2.heap, addr, field, step2.blocksToAdd, 1,
                           payload, parentIsLocalized)

\* the blocks generator; returns the heap it leaves
blocks(heap, field, addr, payload, buildSchemaOptions, parentIsLocalized) ==
    LET fieldSchema ==
            [base |-> formatBaseSchema(buildSchemaOptions, field,
                                       parentIsLocalized),
             type |-> "[blockType]",
             discriminators |-> <<>>]
        added == SchemaAdd(heap, addr, field.name,
                           localizeSchema(field, fieldSchema,
                                          payload.config.localization,
                                          parentIsLocalized))
        step1 == inlineBlocksStep(
                     [heap |-> added, blocksToAdd |-> <<>>,
                      processedSlugs |-> {}],
                     field.blocks, 1, field, payload, buildSchemaOptions,
                     parentIsLocalized)
        step2 ==
            IF field.blockReferences.kind = "GlobalBlocks"
            THEN globalBlocksStep(step1, payload.config.blocks, 1,
                                  payload.db.globalBlockSchemas)
            ELSE IF field.blockReferences.kind = "array"
                 THEN blockReferencesStep(step1, field.blockReferences.refs,
                                          1, field, payload,
                                          buildSchemaOptions,
                                          parentIsLocalized)
            ELSE step1
    IN  discriminatorsStep(step2.heap, addr, field, step2.blocksToAdd, 1,
                           payload, parentIsLocalized)

\* the options object of the sub-schemas of array, group and named tabs
SubSchemaOptions == [_id |-> FALSE, id |-> FALSE, minimize |-> FALSE]

array(heap, field, addr, payload, buildSchemaOptions, parentIsLocalized) ==
    LET sub == Len(heap) + 1
        built == buildSchema(heap,
                     [allowIDField |-> TRUE,
                      disableUnique |-> buildSchemaOptions.disableUnique,
                      draftsEnabled |-> buildSchemaOptions.draftsEnabled,
                      indexSortableFields |-> FALSE,
                      options |-> SubSchemaOptions],
                     field.fields,
                     parentIsLocalized \/ Attr(field, "localized", FALSE),
                     payload, Undefined)
        baseSchema ==
            [base |-> formatBaseSchema(buildSchemaOptions, field,
                                       parentIsLocalized),
             type |-> "[Schema]", sub |-> sub]
    IN  SchemaAdd(built, addr, field.name,
                  localizeSchema(field, baseSchema,
                                 payload.config.localization,
                                 parentIsLocalized))

checkbox(heap, field, addr, payload, buildSchemaOptions, parentIsLocalized) ==
    LET baseSchema ==
            [base |-> formatBaseSchema(buildSchemaOptions, field,
                                       parentIsLocalized),
             type |-> "Boolean"]
    IN  SchemaAdd(heap, addr, field.name,
                  localizeSchema(field, baseSchema,
                                 payload.config.localization,
                                 parentIsLocalized))

code(heap, field, addr, payload, buildSchemaOptions, parentIsLocalized) ==
    LET baseSchema ==
            [base |-> formatBaseSchema(buildSchemaOptions, field,
                                       parentIsLocalized),
             type |-> "String"]
    IN  SchemaAdd(heap, addr, field.name,
                  localizeSchema(field, baseSchema,
                                 payload.config.localization,
                                 parentIsLocalized))

collapsible(heap, field, addr, payload, buildSchemaOptions, parentIsLocalized) ==
    subFieldsLoop(heap, field.fields, 1, addr, payload, buildSchemaOptions,
                  parentIsLocalized)

date(heap, field, addr, payload, buildSchemaOptions, parentIsLocalized) ==
    LET baseSchema ==
            [base |-> formatBaseSchema(buildSchemaOptions, field,
                                       parentIsLocalized),
             type |-> "Date"]
    IN  SchemaAdd(heap, addr, field.name,
                  localizeSchema(field, baseSchema,
                                 payload.config.localization,
                                 parentIsLocalized))

email(heap, field, addr, payload, buildSchemaOptions, parentIsLocalized) ==
    LET baseSchema ==
            [base |-> formatBaseSchema(buildSchemaOptions, field,
                                       parentIsLocalized),
             type |-> "String"]
    IN  SchemaAdd(heap, addr, field.name,
                  localizeSchema(field, baseSchema,
                                 payload.config.localization,
                                 parentIsLocalized))

\* the group generator hoisting the fields of every group, named or not
groupHoisting(heap, field, addr, payload, buildSchemaOptions, parentIsLocalized) ==
    subFieldsLoop(heap, field.fields, 1, addr, payload, buildSchemaOptions,
                  parentIsLocalized \/ Attr(field, "localized", FALSE))

group(heap, field, addr, payload, buildSchemaOptions, parentIsLocalized) ==
    IF fieldAffectsData(field)
    THEN LET indexSortableFields ==
                 /\ buildSchemaOptions.indexSortableFields
                 /\ field.name = "version"
                 /\ buildSchemaOptions.draftsEnabled
             sub == Len(heap) + 1
             built == buildSchema(heap,
                          [allowIDField |-> FALSE,
                           disableUnique |-> buildSchemaOptions.disableUnique,
                           draftsEnabled |-> buildSchemaOptions.draftsEnabled,
                           indexSortableFields |-> indexSortableFields,
                           options |-> SubSchemaOptions],
                          field.fields,
                          parentIsLocalized
                              \/ Attr(field, "localized", FALSE),
                          payload, Undefined)
             baseSchema ==
                 [base |-> formatBaseSchema(buildSchemaOptions, field,
                                            parentIsLocalized),
                  type |-> "Schema", sub |-> sub]
         IN  SchemaAdd(built, addr, field.name,
                       localizeSchema(field, baseSchema,
                                      payload.config.localization,
                                      parentIsLocalized))
    ELSE subFieldsLoop(heap, field.fields, 1, addr, payload,
                       buildSchemaOptions,
                       parentIsLocalized \/ Attr(field, "localized", FALSE))

json(heap, field, addr, payload, buildSchemaOptions, parentIsLocalized) ==
    LET baseSchema ==
            [base |-> formatBaseSchema(buildSchemaOptions, field,
                                       parentIsLocalized),
             type |-> "Mixed"]
    IN  SchemaAdd(heap, addr, field.name,
                  localizeSchema(field, baseSchema,
                                 payload.config.localization,
                                 parentIsLocalized))

number(heap, field, addr, payload, buildSchemaOptions, parentIsLocalized) ==
    LET baseSchema ==
            [base |-> formatBaseSchema(buildSchemaOptions, field,
                                       parentIsLocalized),
             type |-> IF Attr(field, "hasMany", FALSE)
                      THEN "[Number]" ELSE "Number"]
    IN  SchemaAdd(heap, addr, field.name,
                  localizeSchema(field, baseSchema,
                                 payload.config.localization,
                                 parentIsLocalized))

\* schema.index once per locale for a localized point, from locale k on
pointLocaleIndexes(heap, addr, name, localeCodes, k, indexOptions) ==
    LET add[j \in k..(Len(localeCodes) + 1)] ==
            IF j = k THEN heap
            ELSE SchemaIndex(add[j - 1], addr,
                     <<[path |-> <<name, localeCodes[j - 1]>>,
                        kind |-> "2dsphere"]>>,
                     indexOptions)
    IN  add[Len(localeCodes) + 1]

point(heap, field, addr, payload, buildSchemaOptions, parentIsLocalized) ==
    LET geoType == IF "defaultValue" \in DOMAIN field
                   THEN [type |-> "String", enum |-> <<"Point">>,
                         default |-> "Point"]
                   ELSE [type |-> "String", enum |-> <<"Point">>]
        coordinates ==
            IF /\ buildSchemaOptions.disableUnique
               /\ Attr(field, "unique", FALSE)
               /\ fieldShouldBeLocalized(field, parentIsLocalized)
            THEN [type |-> "[Number]",
                  default |-> Attr(field, "defaultValue", Undefined),
                  required |-> FALSE, sparse |-> TRUE]
            ELSE [type |-> "[Number]",
                  default |-> Attr(field, "defaultValue", Undefined),
                  required |-> FALSE]
        baseSchema == [type |-> geoType, coordinates |-> coordinates]
        added == SchemaAdd(heap, addr, field.name,
                           localizeSchema(field, baseSchema,
                                          payload.config.localization,
                                          parentIsLocalized))
        indexOptions ==
            IF ~buildSchemaOptions.disableUnique
                   /\ Attr(field, "unique", FALSE)
            THEN [sparse |-> TRUE, unique |-> TRUE]
            ELSE [sparse |-> FALSE, unique |-> FALSE]
    IN  IF Attr(field, "index", TRUE)
        THEN IF fieldShouldBeLocalized(field, parentIsLocalized)
                    /\ payload.config.localization.enabled
             THEN pointLocaleIndexes(added, addr, field.name,
                      payload.config.localization.localeCodes, 1,
                      indexOptions)
             ELSE SchemaIndex(added, addr,
                      <<[path |-> <<field.name>>, kind |-> "2dsphere"]>>,
                      indexOptions)
        ELSE added

\* a string of the configuration where it stands beside objects or null
Str(s) == [str |-> s]

\* field.options.map(...): a label/value pair gives its value, a bare
\* option itself
optionValues(options) ==
    [k \in 1..Len(options) |->
        IF "value" \in DOMAIN options[k] THEN options[k].value
        ELSE options[k]]

radio(heap, field, addr, payload, buildSchemaOptions, parentIsLocalized) ==
    LET baseSchema ==
            [base |-> formatBaseSchema(buildSchemaOptions, field,
                                       parentIsLocalized),
             type |-> "String",
             enum |-> optionValues(field.options)]
    IN  SchemaAdd(heap, addr, field.name,
                  localizeSchema(field, baseSchema,
                                 payload.config.localization,
                                 parentIsLocalized))

\* payload.collections[slug]?.customIDType, "" when there is none
customIDTypeOf(payload, slug) ==
    IF slug \in DOMAIN payload.collections
    THEN payload.collections[slug].customIDType ELSE ""

getRelationshipValueType(field, payload) ==
    IF "str" \in DOMAIN field.relationTo
    THEN LET customIDType == customIDTypeOf(payload, field.relationTo.str)
         IN  IF customIDType = "" THEN "ObjectId"
             ELSE IF customIDType = "number"
                  THEN IF payload.db.useBigIntForNumberIDs
                       THEN "BigInt" ELSE "Number"
             ELSE "String"
    ELSE IF \E k \in 1..Len(field.relationTo.list) :
                customIDTypeOf(payload, field.relationTo.list[k]) # ""
         THEN "Mixed"
         ELSE "ObjectId"

relationship(heap, field, addr, payload, buildSchemaOptions, parentIsLocalized) ==
    LET hasManyRelations == "list" \in DOMAIN field.relationTo
        valueType == getRelationshipValueType(field, payload)
        base == formatBaseSchema(buildSchemaOptions, field,
                                 parentIsLocalized)
        default == Attr(field, "defaultValue", Undefined)
        many(refPath) ==
            [base |-> base, _id |-> FALSE, type |-> "Mixed",
             relationTo |-> [type |-> "String",
                             enum |-> field.relationTo.list],
             value |-> [type |-> valueType, refPath |-> refPath]]
        one == [base |-> base, type |-> valueType,
                ref |-> field.relationTo]
        wrap(schema) ==
            IF Attr(field, "hasMany", FALSE)
            THEN [type |-> "[]", of |-> schema, default |-> default]
            ELSE schema
        schemaToReturn ==
            IF fieldShouldBeLocalized(field, parentIsLocalized)
                   /\ payload.config.localization.enabled
            THEN [_id |-> FALSE,
                  type |-> [lc \in Range(payload.config.localization
                                             .localeCodes) |->
                               wrap(IF hasManyRelations
                                    THEN many(<<field.name, lc,
                                                "relationTo">>)
                                    ELSE one)],
                  localized |-> TRUE]
            ELSE IF hasManyRelations
                 THEN wrap(many(<<field.name, "relationTo">>))
                 ELSE wrap(one)
    IN  SchemaAdd(heap, addr, field.name, schemaToReturn)

richText(heap, field, addr, payload, buildSchemaOptions, parentIsLocalized) ==
    LET baseSchema ==
            [base |-> formatBaseSchema(buildSchemaOptions, field,
                                       parentIsLocalized),
             type |-> "Mixed"]
    IN  SchemaAdd(heap, addr, field.name,
                  localizeSchema(field, baseSchema,
                                 payload.config.localization,
                                 parentIsLocalized))

row(heap, field, addr, payload, buildSchemaOptions, parentIsLocalized) ==
    subFieldsLoop(heap, field.fields, 1, addr, payload, buildSchemaOptions,
                  parentIsLocalized)

select(heap, field, addr, payload, buildSchemaOptions, parentIsLocalized) ==
    LET values == optionValues(field.options)
        baseSchema ==
            [base |-> formatBaseSchema(buildSchemaOptions, field,
                                       parentIsLocalized),
             type |-> "String",
             enum |-> IF buildSchemaOptions.draftsEnabled
                             \/ ~Attr(field, "required", FALSE)
                      THEN Append(values, Null) ELSE values]
    IN  SchemaAdd(heap, addr, field.name,
                  localizeSchema(field,
                                 IF Attr(field, "hasMany", FALSE)
                                 THEN [type |-> "[]", of |-> baseSchema]
                                 ELSE baseSchema,
                                 payload.config.localization,
                                 parentIsLocalized))

\* one tab of the tabs generator
tab(heap, t, addr, payload, buildSchemaOptions, parentIsLocalized) ==
    IF "name" \in DOMAIN t
    THEN IF fieldIsVirtual(t) THEN heap
         ELSE LET sub == Len(heap) + 1
                  built == buildSchema(heap,
                               [allowIDField |-> FALSE,
                                disableUnique |->
                                    buildSchemaOptions.disableUnique,
                                draftsEnabled |->
                                    buildSchemaOptions.draftsEnabled,
                                indexSortableFields |-> FALSE,
                                options |-> SubSchemaOptions],
                               t.fields,
                               parentIsLocalized
                                   \/ Attr(t, "localized", FALSE),
                               payload, Undefined)
                  baseSchema == [type |-> "Schema", sub |-> sub]
              IN  SchemaAdd(built, addr, t.name,
                            localizeSchema(t, baseSchema,
                                           payload.config.localization,
                                           parentIsLocalized))
    ELSE subFieldsLoop(heap, t.fields, 1, addr, payload, buildSchemaOptions,
                       parentIsLocalized \/ Attr(t, "localized", FALSE))

\* field.tabs.forEach, from tab k on
tabsLoop(heap, tabList, k, addr, payload, buildSchemaOptions, parentIsLocalized) ==
    IF k > Len(tabList) THEN heap
    ELSE tabsLoop(tab(heap, tabList[k], addr, payload, buildSchemaOptions,
                      parentIsLocalized),
                  tabList, k + 1, addr, payload, buildSchemaOptions,
                  parentIsLocalized)

tabs(heap, field, addr, payload, buildSchemaOptions, parentIsLocalized) ==
    tabsLoop(heap, field.tabs, 1, addr, payload, buildSchemaOptions,
             parentIsLocalized)

textarea(heap, field, addr, payload, buildSchemaOptions, parentIsLocalized) ==
    LET baseSchema ==
            [base |-> formatBaseSchema(buildSchemaOptions, field,
                                       parentIsLocalized),
             type |-> "String"]
    IN  SchemaAdd(heap, addr, field.name,
                  localizeSchema(field, baseSchema,
                                 payload.config.localization,
                                 parentIsLocalized))

upload(heap, field, addr, payload, buildSchemaOptions, parentIsLocalized) ==
    LET hasManyRelations == "list" \in DOMAIN field.relationTo
        valueType == getRelationshipValueType(field, payload)
        base == formatBaseSchema(buildSchemaOptions, field,
                                 parentIsLocalized)
        default == Attr(field, "defaultValue", Undefined)
        many(refPath) ==
            [base |-> base, _id |-> FALSE, type |-> "Mixed",
             relationTo |-> [type |-> "String",
                             enum |-> field.relationTo.list],
             value |-> [type |-> valueType, refPath |-> refPath]]
        one == [base |-> base, type |-> valueType,
                ref |-> field.relationTo]
        wrap(schema) ==
            IF Attr(field, "hasMany", FALSE)
            THEN [type |-> "[]", of |-> schema, default |-> default]
            ELSE schema
        schemaToReturn ==
            IF fieldShouldBeLocalized(field, parentIsLocalized)
                   /\ payload.config.localization.enabled
            THEN [_id |-> FALSE,
                  type |-> [lc \in Range(payload.config.localization
                                             .localeCodes) |->
                               wrap(IF hasManyRelations
                                    THEN many(<<field.name, lc,
                                                "relationTo">>)
                                    ELSE one)],
                  localized |-> TRUE]
            ELSE IF hasManyRelations
                 THEN wrap(many(<<field.name, "relationTo">>))
                 ELSE wrap(one)
    IN  SchemaAdd(heap, addr, field.name, schemaToReturn)

\* getSchemaGenerator(field.type) applied to the field; an unknown kind has
\* no generator and leaves the schema alone
addFieldSchema(heap, field, addr, payload, buildSchemaOptions, parentIsLocalized) ==
    CASE field.type = "array" ->
             array(heap, field, addr, payload, buildSchemaOptions,
                   parentIsLocalized)
      [] field.type = "blocks" ->
             blocks(heap, field, addr, payload, buildSchemaOptions,
                    parentIsLocalized)
      [] field.type = "checkbox" ->
             checkbox(heap, field, addr, payload, buildSchemaOptions,
                      parentIsLocalized)
      [] field.type = "code" ->
             code(heap, field, addr, payload, buildSchemaOptions,
                  parentIsLocalized)
      [] field.type = "collapsible" ->
             collapsible(heap, field, addr, payload, buildSchemaOptions,
                         parentIsLocalized)
      [] field.type = "date" ->
             date(heap, field, addr, payload, buildSchemaOptions,
                  parentIsLocalized)
      [] field.type = "email" ->
             email(heap, field, addr, payload, buildSchemaOptions,
                   parentIsLocalized)
      [] field.type = "group" ->
             group(heap, field, addr, payload, buildSchemaOptions,
                   parentIsLocalized)
      [] field.type = "json" ->
             json(heap, field, addr, payload, buildSchemaOptions,
                  parentIsLocalized)
      [] field.type = "number" ->
             number(heap, field, addr, payload, buildSchemaOptions,
                    parentIsLocalized)
      [] field.type = "point" ->
             point(heap, field, addr, payload, buildSchemaOptions,
                   parentIsLocalized)
      [] field.type = "radio" ->
             radio(heap, field, addr, payload, buildSchemaOptions,
                   parentIsLocalized)
      [] field.type = "relationship" ->
             relationship(heap, field, addr, payload, buildSchemaOptions,
                          parentIsLocalized)
      [] field.type = "richText" ->
             richText(heap, field, addr, payload, buildSchemaOptions,
                      parentIsLocalized)
      [] field.type = "row" ->
             row(heap, field, addr, payload, buildSchemaOptions,
                 parentIsLocalized)
      [] field.type = "select" ->
             select(heap, field, addr, payload, buildSchemaOptions,
                    parentIsLocalized)
      [] field.type = "tabs" ->
             tabs(heap, field, addr, payload, buildSchemaOptions,
                  parentIsLocalized)
      [] field.type = "text" ->
             text(heap, field, addr, payload, buildSchemaOptions,
                  parentIsLocalized)
      [] field.type = "textarea" ->
             textarea(heap, field, addr, payload, buildSchemaOptions,
                      parentIsLocalized)
      [] field.type = "upload" ->
             upload(heap, field, addr, payload, buildSchemaOptions,
                    parentIsLocalized)
      [] OTHER -> heap

\* the forEach of collapsible, row, a group without a name and a tab
\* without a name, from entry k on: only virtual fields are skipped
subFieldsLoop(heap, fields, k, addr, payload, buildSchemaOptions, parentIsLocalized) ==
    IF k > Len(fields) THEN heap
    ELSE subFieldsLoop(
             IF fieldIsVirtual(fields[k]) THEN heap
             ELSE addFieldSchema(heap, fields[k], addr, payload,
                                 buildSchemaOptions, parentIsLocalized),
             fields, k + 1, addr, payload, buildSchemaOptions,
             parentIsLocalized)

\* block.fields.forEach of the blocks generator, from entry k on
blockFieldsLoop(heap, fields, k, addr, payload, buildSchemaOptions, parentIsLocalized) ==
    IF k > Len(fields) THEN heap
    ELSE blockFieldsLoop(
             addFieldSchema(heap, fields[k], addr, payload,
                            buildSchemaOptions, parentIsLocalized),
             fields, k + 1, addr, payload, buildSchemaOptions,
             parentIsLocalized)

\* STEP 1: field.blocks.forEach, from entry k on
inlineBlocksStep(st, blks, k, field, payload, buildSchemaOptions, parentIsLocalized) ==
    IF k > Len(blks) THEN st
    ELSE LET blockSchema == Len(st.heap) + 1
         IN  inlineBlocksStep(
                 [heap |-> blockFieldsLoop(Append(st.heap, NewSchema),
                                           blks[k].fields, 1, blockSchema,
                                           payload, buildSchemaOptions,
                                           parentIsLocalized
                                               \/ field.localized),
                  blocksToAdd |-> Append(st.blocksToAdd,
                      [slug |-> blks[k].slug, isInline |-> TRUE,
                       schema |-> blockSchema]),
                  processedSlugs |-> st.processedSlugs \cup {blks[k].slug}],
                 blks, k + 1, field, payload, buildSchemaOptions,
                 parentIsLocalized)

\* the forEach over the fields of buildSchema and of pass 2 of
\* buildGlobalBlockSchemas, from entry k on: virtual and presentational
\* fields are skipped
buildSchemaFields(heap, fields, k, addr, payload, buildSchemaOptions, parentIsLocalized) ==
    IF k > Len(fields) THEN heap
    ELSE buildSchemaFields(
             IF fieldIsVirtual(fields[k])
                    \/ fieldIsPresentationalOnly(fields[k])
             THEN heap
             ELSE addFieldSchema(heap, fields[k], addr, payload,
                                 buildSchemaOptions, parentIsLocalized),
             fields, k + 1, addr, payload, buildSchemaOptions,
             parentIsLocalized)

IsIdField(f) == fieldAffectsData(f) /\ f.name = "id"

IsNotIdField(f) == ~IsIdField(f)

\* the key of a compound index for one locale:
\* field.localizedPath.replace('<locale>', locale.code) replaces the first
\* marker only
replaceLocale(localizedPath, localeCode) ==
    LET marked == {k \in 1..Len(localizedPath) :
                       localizedPath[k] = "<locale>"}
        first == CHOOSE k \in marked : \A j \in marked : k <= j
    IN  IF marked = {} THEN localizedPath
        ELSE [k \in 1..Len(localizedPath) |->
                 IF k = first THEN localeCode ELSE localizedPath[k]]

\* indexDefinition[key] = 1 on an object: a key already set keeps its place
setKey(indexDefinition, key) ==
    IF \E k \in 1..Len(indexDefinition) : indexDefinition[k].path = key
    THEN indexDefinition
    ELSE Append(indexDefinition, [path |-> key, kind |-> "1"])

\* the locale loop of one field of a compound index, from locale k on
localeKeys(indexDefinition, indexField, localeCodes, k) ==
    LET set[j \in 0..Len(localeCodes)] ==
            IF j < k THEN indexDefinition
            ELSE setKey(set[j - 1],
                        replaceLocale(indexField.localizedPath,
                                      localeCodes[j]))
    IN  set[Len(localeCodes)]

\* the loop over index.fields setting the bare path for every field
indexFieldsBarePaths(indexDefinition, fields, k, payload) ==
    LET set[j \in 0..Len(fields)] ==
            IF j < k THEN indexDefinition
            ELSE setKey(set[j - 1], fields[j].path)
    IN  set[Len(fields)]

\* the loop over index.fields, from field k on
indexFields(indexDefinition, fields, k, payload) ==
    LET set[j \in 0..Len(fields)] ==
            IF j < k THEN indexDefinition
            ELSE IF fields[j].pathHasLocalized
                        /\ payload.config.localization.enabled
                 THEN localeKeys(set[j - 1], fields[j],
                          payload.config.localization.localeCodes, 1)
                 ELSE setKey(set[j - 1], fields[j].path)
    IN  set[Len(fields)]

\* the loop over args.compoundIndexes, from index k on
compoundIndexesLoop(heap, addr, compoundIndexes, k, buildSchemaOptions, payload) ==
    LET reg[j \in 0..Len(compoundIndexes)] ==
            IF j < k THEN heap
            ELSE SchemaIndex(reg[j - 1], addr,
                     indexFields(<<>>, compoundIndexes[j].fields, 1,
                                 payload),
                     [unique |-> IF buildSchemaOptions.disableUnique
                                 THEN FALSE
                                 ELSE compoundIndexes[j].unique])
    IN  reg[Len(compoundIndexes)]

\* buildSchema treating a field named id as any other field
buildSchemaKeepId(heap, buildSchemaOptions, configFields, parentIsLocalized, payload, compoundIndexes) ==
    LET schema == Len(heap) + 1
        built == buildSchemaFields(
                     Append(heap,
                            [paths |-> <<>>, indexes |-> <<>>,
                             _id |-> "ObjectId",
                             options |-> Attr(buildSchemaOptions, "options",
                                              Undefined)]),
                     configFields, 1, schema, payload, buildSchemaOptions,
                     parentIsLocalized)
    IN  IF compoundIndexes = Undefined THEN built
        ELSE compoundIndexesLoop(built, schema, compoundIndexes.list, 1,
                                 buildSchemaOptions, payload)

\* buildSchema: allocates the schema at address Len(heap) + 1, compiles
\* configFields into it, registers the compound indexes and returns the
\* heap; compoundIndexes is Undefined when the argument is absent
buildSchema(heap, buildSchemaOptions, configFields, parentIsLocalized, payload, compoundIndexes) ==
    LET hasIdField == /\ ~buildSchemaOptions.allowIDField
                      /\ \E k \in 1..Len(configFields) :
                             IsIdField(configFields[k])
        idType ==
            IF hasIdField
            THEN LET f == SelectSeq(configFields, IsIdField)[1]
                 IN  IF f.type = "number"
                     THEN IF payload.db.useBigIntForNumberIDs
                          THEN "BigInt" ELSE "Number"
                     ELSE "String"
            ELSE "ObjectId"
        schemaFields == IF hasIdField
                        THEN SelectSeq(configFields, IsNotIdField)
                        ELSE configFields
        schema == Len(heap) + 1
        built == buildSchemaFields(
                     Append(heap,
                            [paths |-> <<>>, indexes |-> <<>>,
                             _id |-> idType,
                             options |-> Attr(buildSchemaOptions, "options",
                                              Undefined)]),
                     schemaFields, 1, schema, payload, buildSchemaOptions,
                     parentIsLocalized)
    IN  IF compoundIndexes = Undefined THEN built
        ELSE compoundIndexesLoop(built, schema, compoundIndexes.list, 1,
                                 buildSchemaOptions, payload)

(* --------------------------- path map builders -------------------------- *)
\* a segment of a schema path: a field name or slug, or the index path of
\* a field without a name ("_index-0-1")
Seg(name) == [name |-> name]

IndexSeg(indexPath) == [index |-> indexPath]

\* getFieldPaths: index is the field's position counted from 0; a field
\* with a name appends its name to the schema path, one without appends
\* its index path; parentPath is '' at every call and path is not used
getFieldPaths(field, index, parentIndexPath, parentSchemaPath) ==
    LET indexPath == Append(parentIndexPath, index)
    IN  [indexPath |-> indexPath,
         schemaPath |->
             Append(parentSchemaPath,
                    IF "name" \in DOMAIN field THEN Seg(field.name)
                    ELSE IndexSeg(indexPath))]

\* Map.prototype.set on a schema map, a sequence of entries in insertion
\* order: a key already present keeps its place
SchemaMapSet(map, key, value) ==
    IF \E k \in 1..Len(map) : map[k].key = key
    THEN [k \in 1..Len(map) |->
             IF map[k].key = key THEN [key |-> key, value |-> value]
             ELSE map[k]]
    ELSE Append(map, [key |-> key, value |-> value])

SchemaMapHas(map, key) == \E k \in 1..Len(map) : map[k].key = key

\* Map.prototype.get, undefined when the key is absent
SchemaMapGet(map, key) ==
    IF SchemaMapHas(map, key)
    THEN map[CHOOSE k \in 1..Len(map) : map[k].key = key].value
    ELSE Undefined

GlobalBlockSchemaPath(slug) == <<Seg("__global_blocks__"), Seg(slug)>>

RECURSIVE traverseFieldsClient(_, _, _, _, _, _)

\* field.blocks.map of the client traversal
clientInlineBlocks(map, config, blks, schemaPath) ==
    LET step[j \in 0..Len(blks)] ==
            IF j = 0 THEN map
            ELSE LET blockSchemaPath ==
                         Append(schemaPath, Seg(blks[j].slug))
                 IN  traverseFieldsClient(
                         SchemaMapSet(step[j - 1], blockSchemaPath, blks[j]),
                         config, blks[j].fields, 1, <<>>, blockSchemaPath)
    IN  step[Len(blks)]

\* blockReferences === 'GlobalBlocks' in the client traversal
clientGlobalBlocks(map, config, field, schemaPath) ==
    LET inlineSlugs == {field.blocks[k].slug : k \in 1..Len(field.blocks)}
        step[j \in 0..Len(config.blocks)] ==
            IF j = 0 THEN map
            ELSE LET slug == config.blocks[j].slug
                     globalBlockSchema ==
                         SchemaMapGet(step[j - 1],
                                      GlobalBlockSchemaPath(slug))
                 IN  IF slug \notin inlineSlugs
                            /\ globalBlockSchema # Undefined
                     THEN SchemaMapSet(step[j - 1],
                                       Append(schemaPath, Seg(slug)),
                                       globalBlockSchema)
                     ELSE step[j - 1]
    IN  step[Len(config.blocks)]

\* an array-valued blockReferences that descends into the fields of a
\* variant it finds under the reserved root
clientBlockReferencesDescending(map, config, field, schemaPath) ==
    LET inlineSlugs == {field.blocks[k].slug : k \in 1..Len(field.blocks)}
        refs == field.blockReferences.refs
        step[j \in 0..Len(refs)] ==
            IF j = 0 THEN map
            ELSE LET slug == refs[j].slug
                     blockSchemaPath == Append(schemaPath, Seg(slug))
                     globalBlockSchema ==
                         SchemaMapGet(step[j - 1],
                                      GlobalBlockSchemaPath(slug))
                 IN  IF slug \in inlineSlugs THEN step[j - 1]
                     ELSE IF refs[j].kind = "string"
                          THEN IF globalBlockSchema # Undefined
                               THEN traverseFieldsClient(
                                        SchemaMapSet(step[j - 1],
                                                     blockSchemaPath,
                                                     globalBlockSchema),
                                        config, globalBlockSchema.fields, 1,
                                        <<>>, blockSchemaPath)
                               ELSE step[j - 1]
                     ELSE traverseFieldsClient(
                              SchemaMapSet(step[j - 1], blockSchemaPath,
                                           refs[j].block),
                              config, refs[j].block.fields, 1, <<>>,
                              blockSchemaPath)
    IN  step[Len(refs)]

\* an array-valued blockReferences in the client traversal
clientBlockReferences(map, config, field, schemaPath) ==
    LET inlineSlugs == {field.blocks[k].slug : k \in 1..Len(field.blocks)}
        refs == field.blockReferences.refs
        step[j \in 0..Len(refs)] ==
            IF j = 0 THEN map
            ELSE LET slug == refs[j].slug
                     blockSchemaPath == Append(schemaPath, Seg(slug))
                     globalBlockSchema ==
                         SchemaMapGet(step[j - 1],
                                      GlobalBlockSchemaPath(slug))
                 IN  IF slug \in inlineSlugs THEN step[j - 1]
                     ELSE IF refs[j].kind = "string"
                          THEN IF globalBlockSchema # Undefined
                               THEN SchemaMapSet(step[j - 1],
                                                 blockSchemaPath,
                                                 globalBlockSchema)
                               ELSE step[j - 1]
                     ELSE traverseFieldsClient(
                              SchemaMapSet(step[j - 1], blockSchemaPath,
                                           refs[j].block),
                              config, refs[j].block.fields, 1, <<>>,
                              blockSchemaPath)
    IN  step[Len(refs)]

\* field.tabs.map of the client traversal
clientTabs(map, config, field, indexPath, parentSchemaPath) ==
    LET step[j \in 0..Len(field.tabs)] ==
            IF j = 0 THEN map
            ELSE LET t == field.tabs[j]
                     isNamedTab == "name" \in DOMAIN t
                     paths == getFieldPaths(t, j - 1, indexPath,
                                            parentSchemaPath)
                 IN  traverseFieldsClient(
                         SchemaMapSet(step[j - 1], paths.schemaPath, t),
                         config, t.fields, 1,
                         IF isNamedTab THEN <<>> ELSE paths.indexPath,
                         IF isNamedTab THEN paths.schemaPath
                         ELSE parentSchemaPath)
    IN  step[Len(field.tabs)]

\* the client traversal, from field k on; returns the map it leaves. The
\* entries of a richText field come from the editor's entries in the
\* server map, of which the model holds none
traverseFieldsClient(map, config, fields, k, parentIndexPath, parentSchemaPath) ==
    IF k > Len(fields) THEN map
    ELSE LET f == fields[k]
             paths == getFieldPaths(f, k - 1,
                          IF "name" \in DOMAIN f THEN <<>>
                          ELSE parentIndexPath,
                          parentSchemaPath)
             indexPath == paths.indexPath
             schemaPath == paths.schemaPath
             set == SchemaMapSet(map, schemaPath, f)
             inner ==
                 CASE f.type = "array" ->
                          traverseFieldsClient(set, config, f.fields, 1,
                                               <<>>, schemaPath)
                   [] f.type = "blocks" ->
                          LET inline == clientInlineBlocks(set, config,
                                            f.blocks, schemaPath)
                          IN  IF f.blockReferences.kind = "GlobalBlocks"
                              THEN clientGlobalBlocks(inline, config, f,
                                                      schemaPath)
                              ELSE IF f.blockReferences.kind = "array"
                                   THEN clientBlockReferences(
                                            inline, config, f, schemaPath)
                              ELSE inline
                   [] f.type \in {"collapsible", "row"} ->
                          traverseFieldsClient(set, config, f.fields, 1,
                                               indexPath, parentSchemaPath)
                   [] f.type = "group" ->
                          IF fieldAffectsData(f)
                          THEN traverseFieldsClient(set, config, f.fields,
                                                    1, <<>>, schemaPath)
                          ELSE traverseFieldsClient(set, config, f.fields,
                                                    1, indexPath,
                                                    parentSchemaPath)
                   [] f.type = "tabs" ->
                          clientTabs(set, config, f, indexPath,
                                     parentSchemaPath)
                   [] OTHER -> set
         IN  traverseFieldsClient(inner, config, fields, k + 1,
                                  parentIndexPath, parentSchemaPath)

baseAuthFields ==
    <<[name |-> "password", type |-> "text", required |-> TRUE],
      [name |-> "confirm-password", type |-> "text", required |-> TRUE]>>

\* the global variants stored under __global_blocks__ first
clientGlobalBlockEntries(config) ==
    LET step[j \in 0..Len(config.blocks)] ==
            IF j = 0 THEN <<>>
            ELSE LET blockSchemaPath ==
                         GlobalBlockSchemaPath(config.blocks[j].slug)
                 IN  traverseFieldsClient(
                         SchemaMapSet(step[j - 1], blockSchemaPath,
                                      config.blocks[j]),
                         config, config.blocks[j].fields, 1, <<>>,
                         blockSchemaPath)
    IN  step[Len(config.blocks)]

\* Array.prototype.find on config.collections and config.globals
FindEntity(entities, slug) ==
    IF \E k \in 1..Len(entities) : entities[k].slug = slug
    THEN entities[CHOOSE k \in 1..Len(entities) :
                     /\ entities[k].slug = slug
                     /\ \A j \in 1..(k - 1) : entities[j].slug # slug]
    ELSE Undefined

\* the build with the credential fields put before the declared ones
buildClientFieldSchemaMapAuthFirst(args) ==
    LET config == args.config
        clientSchemaMap == clientGlobalBlockEntries(config)
        matchedCollection == FindEntity(config.collections,
                                        args.collectionSlug)
        matchedGlobal == FindEntity(config.globals, args.globalSlug)
    IN  IF args.collectionSlug # ""
        THEN IF matchedCollection # Undefined
             THEN LET fieldsToSet ==
                          IF /\ "auth" \in DOMAIN matchedCollection
                             /\ ~matchedCollection.auth.disableLocalStrategy
                          THEN baseAuthFields \o matchedCollection.fields
                          ELSE matchedCollection.fields
                  IN  traverseFieldsClient(
                          SchemaMapSet(clientSchemaMap,
                                       <<Seg(args.collectionSlug)>>,
                                       [fields |-> fieldsToSet]),
                          config, fieldsToSet, 1, <<>>,
                          <<Seg(args.collectionSlug)>>)
             ELSE clientSchemaMap
        ELSE IF args.globalSlug # "" /\ matchedGlobal # Undefined
             THEN traverseFieldsClient(
                      SchemaMapSet(clientSchemaMap, <<Seg(args.globalSlug)>>,
                                   [fields |-> matchedGlobal.fields]),
                      config, matchedGlobal.fields, 1, <<>>,
                      <<Seg(args.globalSlug)>>)
             ELSE clientSchemaMap

\* args.collectionSlug and args.globalSlug are "" when they are not given
buildClientFieldSchemaMap(args) ==
    LET config == args.config
        clientSchemaMap == clientGlobalBlockEntries(config)
        matchedCollection == FindEntity(config.collections,
                                        args.collectionSlug)
        matchedGlobal == FindEntity(config.globals, args.globalSlug)
    IN  IF args.collectionSlug # ""
        THEN IF matchedCollection # Undefined
             THEN LET fieldsToSet ==
                          IF /\ "auth" \in DOMAIN matchedCollection
                             /\ ~matchedCollection.auth.disableLocalStrategy
                          THEN matchedCollection.fields \o baseAuthFields
                          ELSE matchedCollection.fields
                  IN  traverseFieldsClient(
                          SchemaMapSet(clientSchemaMap,
                                       <<Seg(args.collectionSlug)>>,
                                       [fields |-> fieldsToSet]),
                          config, fieldsToSet, 1, <<>>,
                          <<Seg(args.collectionSlug)>>)
             ELSE clientSchemaMap
        ELSE IF args.globalSlug # "" /\ matchedGlobal # Undefined
             THEN traverseFieldsClient(
                      SchemaMapSet(clientSchemaMap, <<Seg(args.globalSlug)>>,
                                   [fields |-> matchedGlobal.fields]),
                      config, matchedGlobal.fields, 1, <<>>,
                      <<Seg(args.globalSlug)>>)
             ELSE clientSchemaMap

RECURSIVE traverseFields(_, _, _, _, _, _)

\* schemaMap.set in the server traversal; st holds the map, the error
\* thrown so far ("none" when none) and the schema paths handed to an
\* editor's generateSchemaMap
Set(st, key, value) ==
    [st EXCEPT !.schemaMap = SchemaMapSet(@, key, value)]

\* field.blocks.map of the server traversal
serverInlineBlocks(st, config, blks, schemaPath) ==
    LET step[j \in 0..Len(blks)] ==
            IF j = 0 THEN st
            ELSE IF step[j - 1].error # "none" THEN step[j - 1]
            ELSE LET blockSchemaPath ==
                         Append(schemaPath, Seg(blks[j].slug))
                 IN  traverseFields(
                         Set(step[j - 1], blockSchemaPath, blks[j]),
                         config, blks[j].fields, 1, <<>>, blockSchemaPath)
    IN  step[Len(blks)]

\* blockReferences === 'GlobalBlocks' in the server traversal
serverGlobalBlocks(st, config, field, schemaPath) ==
    LET inlineSlugs == {field.blocks[k].slug : k \in 1..Len(field.blocks)}
        step[j \in 0..Len(config.blocks)] ==
            IF j = 0 THEN st
            ELSE LET slug == config.blocks[j].slug
                     globalBlockSchema ==
                         SchemaMapGet(step[j - 1].schemaMap,
                                      GlobalBlockSchemaPath(slug))
                 IN  IF slug \notin inlineSlugs
                            /\ globalBlockSchema # Undefined
                     THEN Set(step[j - 1], Append(schemaPath, Seg(slug)),
                              globalBlockSchema)
                     ELSE step[j - 1]
    IN  IF st.error # "none" THEN st ELSE step[Len(config.blocks)]

\* an array-valued blockReferences in the server traversal
serverBlockReferences(st, config, field, schemaPath) ==
    LET inlineSlugs == {field.blocks[k].slug : k \in 1..Len(field.blocks)}
        refs == field.blockReferences.refs
        step[j \in 0..Len(refs)] ==
            IF j = 0 THEN st
            ELSE IF step[j - 1].error # "none" THEN step[j - 1]
            ELSE LET slug == refs[j].slug
                     blockSchemaPath == Append(schemaPath, Seg(slug))
                     globalBlockSchema ==
                         SchemaMapGet(step[j - 1].schemaMap,
                                      GlobalBlockSchemaPath(slug))
                 IN  IF slug \in inlineSlugs THEN step[j - 1]
                     ELSE IF refs[j].kind = "string"
                          THEN IF globalBlockSchema # Undefined
                               THEN Set(step[j - 1], blockSchemaPath,
                                        globalBlockSchema)
                               ELSE step[j - 1]
                     ELSE traverseFields(
                              Set(step[j - 1], blockSchemaPath,
                                  refs[j].block),
                              config, refs[j].block.fields, 1, <<>>,
                              blockSchemaPath)
    IN  step[Len(refs)]

\* field.tabs.map rooting the fields of every tab, named or not, at the
\* tab's own path
serverTabsRooted(st, config, field, indexPath, parentSchemaPath) ==
    LET step[j \in 0..Len(field.tabs)] ==
            IF j = 0 THEN st
            ELSE IF step[j - 1].error # "none" THEN step[j - 1]
            ELSE LET t == field.tabs[j]
                     paths == getFieldPaths(t, j - 1, indexPath,
                                            parentSchemaPath)
                 IN  traverseFields(
                         Set(step[j - 1], paths.schemaPath, t),
                         config, t.fields, 1, <<>>, paths.schemaPath)
    IN  step[Len(field.tabs)]

\* field.tabs.map of the server traversal
serverTabs(st, config, field, indexPath, parentSchemaPath) ==
    LET step[j \in 0..Len(field.tabs)] ==
            IF j = 0 THEN st
            ELSE IF step[j - 1].error # "none" THEN step[j - 1]
            ELSE LET t == field.tabs[j]
                     isNamedTab == "name" \in DOMAIN t
                     paths == getFieldPaths(t, j - 1, indexPath,
                                            parentSchemaPath)
                 IN  traverseFields(
                         Set(step[j - 1], paths.schemaPath, t),
                         config, t.fields, 1,
                         IF isNamedTab THEN <<>> ELSE paths.indexPath,
                         IF isNamedTab THEN paths.schemaPath
                         ELSE parentSchemaPath)
    IN  step[Len(field.tabs)]

\* case 'richText' of the server traversal: field.editor is absent, an
\* unsanitized function, or an object that may hold generateSchemaMap
serverRichText(st, field, schemaPath) ==
    IF "editor" \notin DOMAIN field
    THEN [st EXCEPT !.error = "MissingEditorProp"]
    ELSE IF field.editor.kind = "function"
         THEN [st EXCEPT !.error = "Error"]
    ELSE IF field.editor.generateSchemaMap
         THEN [st EXCEPT !.delegated = Append(@, schemaPath)]
    ELSE st

\* the server traversal, from field k on; a thrown error ends it
traverseFields(st, config, fields, k, parentIndexPath, parentSchemaPath) ==
    IF k > Len(fields) \/ st.error # "none" THEN st
    ELSE LET f == fields[k]
             paths == getFieldPaths(f, k - 1,
                          IF "name" \in DOMAIN f THEN <<>>
                          ELSE parentIndexPath,
                          parentSchemaPath)
             indexPath == paths.indexPath
             schemaPath == paths.schemaPath
             set == Set(st, schemaPath, f)
             inner ==
                 CASE f.type = "array" ->
                          traverseFields(set, config, f.fields, 1, <<>>,
                                         schemaPath)
                   [] f.type = "blocks" ->
                          LET inline == serverInlineBlocks(set, config,
                                            f.blocks, schemaPath)
                          IN  IF f.blockReferences.kind = "GlobalBlocks"
                              THEN serverGlobalBlocks(inline, config, f,
                                                      schemaPath)
                              ELSE IF f.blockReferences.kind = "array"
                                   THEN serverBlockReferences(
                                            inline, config, f, schemaPath)
                              ELSE inline
                   [] f.type \in {"collapsible", "row"} ->
                          traverseFields(set, config, f.fields, 1,
                                         indexPath, parentSchemaPath)
                   [] f.type = "group" ->
                          IF fieldAffectsData(f)
                          THEN traverseFields(set, config, f.fields, 1,
                                              <<>>, schemaPath)
                          ELSE traverseFields(set, config, f.fields, 1,
                                              indexPath, parentSchemaPath)
                   [] f.type = "richText" ->
                          serverRichText(set, f, schemaPath)
                   [] f.type = "tabs" ->
                          serverTabs(set, config, f, indexPath,
                                     parentSchemaPath)
                   [] OTHER -> set
         IN  traverseFields(inner, config, fields, k + 1, parentIndexPath,
                            parentSchemaPath)

(* ----------------------------- the program ----------------------------- *)
VARIABLES
    configBlocks,        \* payload.config.blocks
    localization,        \* payload.config.localization
    field,               \* the polymorphic field handed to the operations
    pc,                  \* position in buildGlobalBlockSchemas and after
    i,                   \* loop index of the current pass
    schemas,             \* the Map local to buildGlobalBlockSchemas
    heap,                \* the mongoose.Schema objects, by address
    globalBlockSchemas,  \* payload.db.globalBlockSchemas
    compiled,            \* how often pass 2 compiled each global variant
    root,                \* address of the schema compiled last, or 0
    ret,                 \* the last call and what it returned
    registryOptions,     \* buildSchemaOptions of buildGlobalBlockSchemas
    job                  \* the arguments of the entry point under study

vars == <<configBlocks, localization, field, pc, i, schemas, heap,
          globalBlockSchemas, compiled, root, ret, registryOptions, job>>

config == <<configBlocks, localization, field, registryOptions, job>>

\* payload.collections: slug -> the collection's customIDType
Collections ==
    [slug \in {"posts", "pages"} |->
        [customIDType |-> IF slug = "posts" THEN "number" ELSE ""]]

Payload ==
    [config |-> [blocks |-> configBlocks, localization |-> localization],
     collections |-> Collections,
     db |-> [globalBlockSchemas |-> globalBlockSchemas,
             useBigIntForNumberIDs |->
                 Attr(job, "useBigIntForNumberIDs", FALSE)]]

\* the state before buildGlobalBlockSchemas runs: the Map of the build is
\* handed to the adapter only by its return (part_000:1023-1024), so the
\* registry the blocks generator reads holds no entry until then
Init ==
    /\ configBlocks \in GlobalBlockLists
    /\ localization \in {NoLocalization, Localization}
    /\ field \in {BlocksField("layout", b, r, l) :
                      b \in InlineBlockLists, r \in ReferencePolicies,
                      l \in BOOLEAN}
    /\ pc = "start"
    /\ i = 0
    /\ schemas = EmptyMap
    /\ heap = <<>>
    /\ globalBlockSchemas = EmptyMap
    /\ compiled = [s \in GlobalSlugs |-> 0]
    /\ root = 0
    /\ ret = [op |-> "none"]
    /\ registryOptions = DefaultBuildSchemaOptions
    /\ job = [kind |-> "field"]

\* buildGlobalBlockSchemas up to the first pass: the empty Map, and the
\* early return when no global variant is declared
BuildStart ==
    /\ pc = "start"
    /\ schemas' = EmptyMap
    /\ IF Len(configBlocks) = 0
       THEN pc' = "return" /\ i' = 0
       ELSE pc' = "pass1" /\ i' = 1
    /\ UNCHANGED <<config, heap, globalBlockSchemas, compiled, root, ret>>

\* a single pass: the shell of configBlocks[i] is populated as soon as it
\* is allocated
Pass1StepFused ==
    /\ pc = "pass1"
    /\ heap' = buildSchemaFields(Append(heap, NewSchema),
                                 configBlocks[i].fields, 1, Len(heap) + 1,
                                 Payload, registryOptions, FALSE)
    /\ schemas' = MapSet(schemas, configBlocks[i].slug, Len(heap) + 1)
    /\ IF i = Len(configBlocks)
       THEN pc' = "pass2" /\ i' = 1
       ELSE pc' = "pass1" /\ i' = i + 1
    /\ UNCHANGED <<config, globalBlockSchemas, compiled, root, ret>>

\* PASS 1, one iteration: an empty schema for configBlocks[i]
Pass1Step ==
    /\ pc = "pass1"
    /\ heap' = Append(heap, NewSchema)
    /\ schemas' = MapSet(schemas, configBlocks[i].slug, Len(heap) + 1)
    /\ IF i = Len(configBlocks)
       THEN pc' = "pass2" /\ i' = 1
       ELSE pc' = "pass1" /\ i' = i + 1
    /\ UNCHANGED <<config, globalBlockSchemas, compiled, root, ret>>

\* PASS 2 re-populating the shells already visited on every iteration
Pass2StepRevisit ==
    /\ pc = "pass2"
    /\ heap' = buildSchemaFields(heap, configBlocks[i].fields, 1,
                                 schemas[configBlocks[i].slug], Payload,
                                 registryOptions, FALSE)
    /\ compiled' = [s \in GlobalSlugs |->
                       IF \E k \in 1..i : configBlocks[k].slug = s
                       THEN compiled[s] + 1 ELSE compiled[s]]
    /\ IF i = Len(configBlocks)
       THEN pc' = "return" /\ i' = 0
       ELSE pc' = "pass2" /\ i' = i + 1
    /\ UNCHANGED <<config, schemas, globalBlockSchemas, root, ret>>

\* PASS 2, one iteration: the fields of configBlocks[i] compiled into the
\* schema the Map holds for its slug
Pass2Step ==
    /\ pc = "pass2"
    /\ heap' = buildSchemaFields(heap, configBlocks[i].fields, 1,
                                 schemas[configBlocks[i].slug], Payload,
                                 registryOptions, FALSE)
    /\ compiled' = [compiled EXCEPT ![configBlocks[i].slug] = @ + 1]
    /\ IF i = Len(configBlocks)
       THEN pc' = "return" /\ i' = 0
       ELSE pc' = "pass2" /\ i' = i + 1
    /\ UNCHANGED <<config, schemas, globalBlockSchemas, root, ret>>

\* return schemas: the adapter stores the returned Map
BuildReturn ==
    /\ pc = "return"
    /\ globalBlockSchemas' = schemas
    /\ pc' = "ready"
    /\ UNCHANGED <<config, i, schemas, heap, compiled, root, ret>>

\* buildSchema on a model whose only field is the polymorphic field; with
\* it initialization ends and the resolver starts to be called
CompileField ==
    /\ pc = "ready"
    /\ root' = Len(heap) + 1
    /\ heap' = buildSchema(heap, DefaultBuildSchemaOptions, <<field>>, FALSE,
                           Payload, Undefined)
    /\ pc' = "serving"
    /\ UNCHANGED <<config, i, schemas, globalBlockSchemas, compiled, ret>>

ResolveBlockCall(blockType) ==
    /\ pc = "serving"
    /\ ret' = [op |-> "resolveBlock", blockType |-> blockType,
               value |-> resolveBlock(blockType, field, configBlocks)]
    /\ UNCHANGED <<config, pc, i, schemas, heap, globalBlockSchemas,
                   compiled, root>>

GetBlocksForFieldCall ==
    /\ pc = "serving"
    /\ LET r == getBlocksForField(field, configBlocks)
       IN  /\ ret' = [op |-> "getBlocksForField", value |-> r.result]
           /\ field' = [field EXCEPT !.blocks = r.fieldBlocks]
           /\ configBlocks' = r.configBlocks
    /\ UNCHANGED <<localization, registryOptions, job, pc, i, schemas, heap,
                   globalBlockSchemas, compiled, root>>

Next ==
    \/ BuildStart
    \/ Pass1Step
    \/ Pass2Step
    \/ BuildReturn
    \/ CompileField
    \/ \E blockType \in BlockTypes : ResolveBlockCall(blockType)
    \/ GetBlocksForFieldCall

Spec == Init /\ [][Next]_vars

(* ------------------------- reading the state --------------------------- *)
SlugsOf(blks) == {blks[k].slug : k \in 1..Len(blks)}

InlineSlugs == SlugsOf(field.blocks)

ListedSlugs == SlugsOf(field.blockReferences.refs)

Resolved == ret.op = "resolveBlock"

\* the descriptor stored under name in the schema at addr
DescriptorAt(addr, name) ==
    LET paths == heap[addr].paths
    IN  paths[CHOOSE k \in 1..Len(paths) : paths[k].name = name].schema

HasPath(addr, name) ==
    \E k \in 1..Len(heap[addr].paths) : heap[addr].paths[k].name = name

\* the discriminator lists of a polymorphic field's descriptor, one per
\* discriminator path
DiscriminatorLists(descriptor) ==
    IF "localized" \in DOMAIN descriptor
    THEN {descriptor.type[lc].discriminators : lc \in DOMAIN descriptor.type}
    ELSE {descriptor.discriminators}

(* ------------------------------- claims -------------------------------- *)

\* C1: when field.blocks holds an inline variant with the requested slug,
\* resolveBlock returns the first such inline variant, whatever the
\* reference policy and the global variants are.
C1_InlineFirst ==
    (Resolved /\ ret.blockType \in InlineSlugs) =>
        /\ ret.value # Undefined
        /\ ret.value.home = "inline"
        /\ ret.value.slug = ret.blockType
        /\ field.blocks[ret.value.idx] = ret.value
        /\ \A j \in 1..(ret.value.idx - 1) :
               field.blocks[j].slug # ret.blockType

C1_Witness ==
    /\ Resolved
    /\ ret.blockType \in InlineSlugs
    /\ ret.blockType \in SlugsOf(configBlocks)
    /\ field.blockReferences.kind = "GlobalBlocks"
    /\ ret.value.home = "inline"

\* the cases in which a slug cannot be resolved
Unresolvable(blockType) ==
    /\ blockType \notin InlineSlugs
    /\ \/ field.blockReferences.kind = "undefined"
       \/ field.blockReferences.kind = "GlobalBlocks"
              /\ blockType \notin SlugsOf(configBlocks)
       \/ field.blockReferences.kind = "array"
              /\ blockType \notin ListedSlugs

\* C2: resolveBlock returns null whenever the requested slug cannot be
\* resolved (unknown everywhere, no reference policy and not inline, or not
\* in the explicit subset).
C2_ReturnsNull ==
    (Resolved /\ Unresolvable(ret.blockType)) => ret.value = Null

\* C3: under an explicit-subset policy resolveBlock returns a variant only
\* for the slug of an inline variant or of a listed entry, and a global
\* variant is returned only when its slug is listed as a string.
C3_OnlyListed ==
    (Resolved /\ field.blockReferences.kind = "array"
         /\ ret.value # Undefined) =>
        /\ ret.blockType \in InlineSlugs \cup ListedSlugs
        /\ ret.value.slug = ret.blockType
        /\ ret.value.home = "global" =>
               \E k \in 1..Len(field.blockReferences.refs) :
                   field.blockReferences.refs[k] = SlugRef(ret.blockType)

C3_Witness ==
    /\ Resolved
    /\ field.blockReferences.kind = "array"
    /\ Len(field.blockReferences.refs) > 0
    /\ ret.blockType \in SlugsOf(configBlocks)
    /\ ret.blockType \notin InlineSlugs \cup ListedSlugs
    /\ ret.value = Undefined

\* the slugs attached on one discriminator path, in attachment order
AttachedSlugs(discriminators) ==
    [k \in 1..Len(discriminators) |-> discriminators[k].slug]

\* the discriminator lists of the compiled polymorphic field
FieldDiscriminatorLists == DiscriminatorLists(DescriptorAt(root, field.name))

InlineSlugsDistinct ==
    \A p, q \in 1..Len(field.blocks) :
        field.blocks[p].slug = field.blocks[q].slug => p = q

\* C4: with no reference policy, the storage builder attaches, on every
\* discriminator path of the field, one discriminator per inline variant
\* slug and no other, and resolveBlock returns not-found for every slug
\* that is not an inline slug, global or not.
C4_NoPolicy ==
    field.blockReferences.kind = "undefined" =>
        /\ (root # 0 /\ InlineSlugsDistinct) =>
               \A d \in FieldDiscriminatorLists :
                   /\ Range(AttachedSlugs(d)) = InlineSlugs
                   /\ Len(d) = Cardinality(InlineSlugs)
        /\ (Resolved /\ ret.blockType \notin InlineSlugs) =>
               ret.value = Undefined

C4_Witness ==
    /\ field.blockReferences.kind = "undefined"
    /\ root # 0
    /\ Cardinality(InlineSlugs) = 2
    /\ \A d \in FieldDiscriminatorLists : Len(d) = 2
    /\ Cardinality(DOMAIN globalBlockSchemas) = 2
    /\ Resolved
    /\ ret.blockType \in SlugsOf(configBlocks) \ InlineSlugs
    /\ ret.value = Undefined

\* the slug of an entry of the list getBlocksForField returns
EntrySlugs(result) == [k \in 1..Len(result) |-> result[k].slug]

IsInlineEntry(e) == "home" \in DOMAIN e /\ e.home = "inline"

\* C5: the list returned by getBlocksForField holds each slug at most once,
\* with every inline variant of the field before any referenced entry,
\* also when the explicit subset repeats a slug.
C5_NoDuplicateSlugs ==
    (ret.op = "getBlocksForField" /\ InlineSlugsDistinct
         /\ ListedSlugs \subseteq SlugsOf(configBlocks)) =>
        /\ IsInjective(EntrySlugs(ret.value))
        /\ \A p, q \in 1..Len(ret.value) :
               (IsInlineEntry(ret.value[q]) /\ ~IsInlineEntry(ret.value[p]))
                   => q < p

\* C6: a resolveBlock or getBlocksForField call leaves the global variant
\* list, the field's inline variant list and its reference policy as they
\* were.
C6_PureReads ==
    [][(pc = "serving" /\ ret' # ret) =>
           /\ configBlocks' = configBlocks
           /\ field'.blocks = field.blocks
           /\ field'.blockReferences = field.blockReferences]_vars

C6_Witness ==
    /\ ret.op = "getBlocksForField"
    /\ Len(ret.value) > Len(field.blocks)
    /\ Len(field.blocks) > 0

ShellsAllocated == DOMAIN schemas = SlugsOf(configBlocks)

SomeShellPopulated ==
    \E s \in DOMAIN schemas : heap[schemas[s]].paths # <<>>

\* C7: no field of a global variant is compiled into a shell before every
\* globally declared slug has its shell, and from the end of pass 1 to the
\* return the registry map keeps its keys and the shell under each key.
C7_TwoPassOrder ==
    /\ [](SomeShellPopulated => ShellsAllocated)
    /\ [](pc \in {"pass2", "return"} => ShellsAllocated)
    /\ [][(pc \in {"pass2", "return"}) => UNCHANGED schemas]_vars

C7_Witness ==
    /\ pc = "pass2"
    /\ i = 2
    /\ Cardinality(DOMAIN schemas) = 2
    /\ heap[schemas[configBlocks[1].slug]].paths # <<>>
    /\ heap[schemas[configBlocks[2].slug]].paths = <<>>

\* C8: once the registry is built for the global variants x and y, the
\* shell of x holds its nested all-global field with exactly the
\* discriminator choices x and y, each the shell allocated in pass 1.
C8_NestedChoices ==
    (pc \in {"ready", "serving"} /\ SlugsOf(configBlocks) = {"x", "y"}) =>
        LET d == DescriptorAt(globalBlockSchemas["x"],
                              "nested").discriminators
        IN  /\ Range(AttachedSlugs(d)) = {"x", "y"}
            /\ Len(d) = 2
            /\ \A k \in 1..Len(d) :
                   d[k].schema = globalBlockSchemas[d[k].slug]

BuildDone == pc \in {"return", "ready", "serving"}

\* C9: buildGlobalBlockSchemas terminates, self and mutual references
\* included, and has then compiled the field list of every global variant
\* into its shell exactly once.
C9_TerminatesOnce ==
    /\ <>BuildDone
    /\ [](BuildDone =>
              \A s \in GlobalSlugs :
                  compiled[s] = IF s \in SlugsOf(configBlocks) THEN 1 ELSE 0)

C9_Witness ==
    /\ pc = "return"
    /\ SlugsOf(configBlocks) = {"x", "y"}
    /\ compiled["x"] = 1
    /\ compiled["y"] = 1
    /\ HasPath(schemas["x"], "nested")
    /\ HasPath(schemas["y"], "nested")

ShellAddresses == {globalBlockSchemas[s] : s \in DOMAIN globalBlockSchemas}

\* C10: for a field with pairwise distinct inline slugs the storage builder
\* attaches each slug at most once per discriminator path, and a slug that
\* is inline gets the schema freshly compiled from the inline variant of
\* field.blocks, never a shell of the registry or a listed variant.
C10_InlinePrecedence ==
    (root # 0 /\ InlineSlugsDistinct) =>
        \A d \in FieldDiscriminatorLists :
            /\ IsInjective(AttachedSlugs(d))
            /\ \A k \in 1..Len(d) :
                   d[k].slug \in InlineSlugs =>
                       /\ d[k].schema \notin ShellAddresses
                       /\ d[k].schema > root
                       /\ HasPath(d[k].schema, "customField")

C10_Witness ==
    /\ root # 0
    /\ InlineSlugsDistinct
    /\ field.blockReferences.kind = "GlobalBlocks"
    /\ field.localized
    /\ localization.enabled
    /\ InlineSlugs \cap DOMAIN globalBlockSchemas # {}
    /\ Cardinality(FieldDiscriminatorLists) >= 1
    /\ \A d \in FieldDiscriminatorLists : Len(d) > Len(field.blocks)

\* the build runs synchronously to its return
FairSpec ==
    Spec /\ WF_vars(BuildStart \/ Pass1Step \/ Pass2Step \/ BuildReturn)

(* ---------------- the pipeline: sanitize, registry, compile ------------- *)
\* the field attributes unique, required and localized, and index when it
\* is given (index is "undefined" for a field that does not set it)
Flags(unique, required, localized, index) ==
    LET given == [unique |-> unique, required |-> required,
                  localized |-> localized]
    IN  IF index = "undefined" THEN given
        ELSE given @@ [index |-> index = "true"]

Field(type, name, flags) == [type |-> type, name |-> name] @@ flags

UniqueText(name) ==
    Field("text", name, Flags(TRUE, FALSE, FALSE, "undefined"))

Options ==
    <<Str("draft"), [label |-> "Published", value |-> Str("published")]>>

\* what a field of each kind carries besides its flags
KindAttributes(type) ==
    CASE type \in {"select", "radio"} -> [options |-> Options]
      [] type = "relationship" -> [relationTo |-> Str("posts")]
      [] type = "upload" -> [relationTo |-> [list |-> <<"posts", "pages">>]]
      [] type \in {"group", "array"} ->
             [fields |-> <<UniqueText("inner")>>]
      [] type = "blocks" ->
             [blocks |-> <<Block("x", "inline", 1, <<UniqueText("inner")>>)>>,
              blockReferences |-> AllGlobal]
      [] OTHER -> [type |-> type]

FieldKinds ==
    {"text", "number", "checkbox", "code", "date", "email", "json",
     "textarea", "richText", "select", "radio", "point", "relationship",
     "upload", "group", "array", "blocks"}

IndexSettings == {"true", "false", "undefined"}

BuildSchemaOptions(allowIDField, disableUnique, draftsEnabled) ==
    [allowIDField |-> allowIDField, disableUnique |-> disableUnique,
     draftsEnabled |-> draftsEnabled, indexSortableFields |-> FALSE]

BuildSchemaJob(configFields, buildSchemaOptions, compoundIndexes, useBigIntForNumberIDs) ==
    [kind |-> "buildSchema", configFields |-> configFields,
     buildSchemaOptions |-> buildSchemaOptions,
     compoundIndexes |-> compoundIndexes,
     useBigIntForNumberIDs |-> useBigIntForNumberIDs]

Setup(j, blks, options, l) ==
    [job |-> j, configBlocks |-> blks, registryOptions |-> options,
     localization |-> l]

\* one field of every kind under every combination of its flags and of the
\* options draftsEnabled and disableUnique
SingleFieldSetups ==
    {Setup(BuildSchemaJob(
               <<Field(type, "subject", Flags(u, r, l, ix))
                     @@ KindAttributes(type)>>,
               BuildSchemaOptions(FALSE, du, de), Undefined, FALSE),
           <<>>, DefaultBuildSchemaOptions, loc) :
        type \in FieldKinds, u \in BOOLEAN, r \in BOOLEAN, l \in BOOLEAN,
        ix \in IndexSettings, du \in BOOLEAN, de \in BOOLEAN,
        loc \in {NoLocalization, Localization}}

\* sanitizeFields letting every block list pass
sanitizeFieldsAnySlugs(fields) == [error |-> "none"]

\* sanitizeFields on the blocks fields of a list: DuplicateFieldName when a
\* field declares two inline variants with one slug
sanitizeFields(fields) ==
    IF \E k \in 1..Len(fields) :
           /\ fields[k].type = "blocks"
           /\ ~IsInjective([b \in 1..Len(fields[k].blocks) |->
                               fields[k].blocks[b].slug])
    THEN [error |-> "DuplicateFieldName"]
    ELSE [error |-> "none"]

\* a field that declares inline variants, possibly two with one slug
InlineVariantSetups ==
    {Setup(BuildSchemaJob(<<BlocksField("layout", b, r, FALSE)>>,
                          DefaultBuildSchemaOptions, Undefined, FALSE),
           blks, DefaultBuildSchemaOptions, NoLocalization) :
        b \in InlineBlockLists, r \in {NoReferences, AllGlobal},
        blks \in {<<>>, <<GlobalBlock("z")>>,
                  <<GlobalBlock("x"), GlobalBlock("z")>>}}

\* payload.config.blocks of the setups about uniqueness: one global
\* variant with a unique field
UniqueGlobalBlocks == <<Block("x", "global", 0, <<UniqueText("slugline")>>)>>

Container(type, name, fields, localized) ==
    [type |-> type, name |-> name, fields |-> fields,
     localized |-> localized]

TabsField(tabList) == [type |-> "tabs", tabs |-> tabList]

\* field lists that put a unique field at every kind of depth
NestedFieldLists(l) ==
    {<<Container("group", "meta", <<UniqueText("inner")>>, l)>>,
     <<Container("array", "items", <<UniqueText("inner")>>, l)>>,
     <<Container("array", "items",
           <<Container("group", "meta", <<UniqueText("inner")>>, FALSE)>>,
           l)>>,
     <<[type |-> "group", fields |-> <<UniqueText("hoisted")>>,
        localized |-> l]>>,
     <<[type |-> "row", fields |-> <<UniqueText("left")>>]>>,
     <<[type |-> "collapsible", fields |-> <<UniqueText("folded")>>]>>,
     <<TabsField(<<[name |-> "seo", localized |-> l,
                    fields |-> <<UniqueText("inner")>>],
                   [label |-> "Content",
                    fields |-> <<UniqueText("body")>>]>>)>>,
     <<Field("point", "location", Flags(TRUE, FALSE, l, "undefined"))>>,
     <<Field("select", "tags", Flags(TRUE, FALSE, l, "undefined"))
           @@ [options |-> Options, hasMany |-> TRUE]>>,
     <<Field("relationship", "owner", Flags(TRUE, FALSE, l, "undefined"))
           @@ [relationTo |-> Str("pages"), hasMany |-> TRUE]>>,
     <<BlocksField("layout",
           <<Block("y", "inline", 1, <<UniqueText("inner")>>)>>,
           NoReferences, l)>>,
     <<BlocksField("layout", <<>>, AllGlobal, l)>>,
     <<BlocksField("layout", <<>>, ExplicitRefs(<<SlugRef("x")>>), l)>>,
     <<BlocksField("layout", <<>>,
           ExplicitRefs(<<BlockRef(Block("y", "ref", 1,
                                         <<UniqueText("inner")>>))>>), l)>>}

IndexField(path, localizedPath) ==
    [path |-> path, localizedPath |-> localizedPath,
     pathHasLocalized |-> path # localizedPath]

\* SanitizedCompoundIndex fields: a top-level field, and fields beneath a
\* localized ancestor at two depths
IndexFields ==
    {IndexField(<<"title">>, <<"title">>),
     IndexField(<<"meta", "inner">>, <<"meta", "<locale>", "inner">>),
     IndexField(<<"meta", "geo", "lat">>,
                <<"meta", "<locale>", "geo", "lat">>)}

CompoundIndexLists ==
    {[list |-> <<[fields |-> fs, unique |-> u]>>] :
        fs \in {t \in SeqsUpTo(IndexFields, 2) :
                   Len(t) > 0 /\ IsInjective(t)},
        u \in BOOLEAN}

NestedUniqueSetups ==
    {Setup(BuildSchemaJob(fields, BuildSchemaOptions(FALSE, du, FALSE),
                          ci, FALSE),
           UniqueGlobalBlocks, BuildSchemaOptions(FALSE, rdu, FALSE), loc) :
        fields \in NestedFieldLists(TRUE) \cup NestedFieldLists(FALSE),
        du \in BOOLEAN, rdu \in BOOLEAN,
        ci \in {Undefined,
                [list |-> <<[fields |-> <<IndexField(<<"title">>,
                                                      <<"title">>)>>,
                             unique |-> TRUE]>>]},
        loc \in {NoLocalization, Localization}}

CompoundIndexSetups ==
    {Setup(BuildSchemaJob(
               <<TextField("title"),
                 Container("group", "meta", <<TextField("inner")>>, TRUE)>>,
               BuildSchemaOptions(FALSE, du, FALSE), ci, FALSE),
           <<>>, DefaultBuildSchemaOptions, loc) :
        du \in BOOLEAN, ci \in CompoundIndexLists,
        loc \in {NoLocalization, Localization}}

IdField(type) == [type |-> type, name |-> "id"]

\* top-level field lists with and without data fields named id, beside a
\* unique title that is not required
IdFieldLists ==
    {<<UniqueText("title")>>,
     <<IdField("number"), UniqueText("title")>>,
     <<UniqueText("title"), IdField("number")>>,
     <<IdField("text"), UniqueText("title")>>,
     <<UniqueText("title"), IdField("text"), TextField("body")>>,
     <<IdField("number"), TextField("body"), UniqueText("title")>>,
     <<[type |-> "ui", name |-> "id"], UniqueText("title")>>}

IdFieldSetups ==
    {Setup(BuildSchemaJob(fields, BuildSchemaOptions(a, du, de), Undefined,
                          big),
           <<>>, DefaultBuildSchemaOptions, NoLocalization) :
        fields \in IdFieldLists, a \in BOOLEAN, du \in BOOLEAN,
        de \in BOOLEAN, big \in BOOLEAN}

\* field lists that nest a kept field, a virtual field and a field named
\* id in every kind of container and of variant
NestingFieldLists(l) ==
    LET kept == Field("text", "kept", Flags(FALSE, FALSE, TRUE, "undefined"))
        shadow == [type |-> "text", name |-> "shadow", virtual |-> TRUE]
        inner == <<kept, shadow>>
        innerId == <<kept, shadow, TextField("id")>>
    IN  {<<shadow, TextField("title")>>,
         <<[type |-> "row", fields |-> inner]>>,
         <<[type |-> "collapsible", fields |-> inner]>>,
         <<[type |-> "group", fields |-> inner, localized |-> l]>>,
         <<Container("group", "meta", innerId, l)>>,
         <<Container("array", "items", innerId, l)>>,
         <<TabsField(<<[name |-> "seo", localized |-> l,
                        fields |-> innerId],
                       [label |-> "Content", localized |-> l,
                        fields |-> inner]>>)>>,
         <<TabsField(<<[name |-> "seo", virtual |-> TRUE,
                        fields |-> <<TextField("title")>>]>>),
           TextField("body")>>,
         <<Container("array", "items",
               <<[type |-> "row", fields |-> inner]>>, l)>>,
         <<Container("group", "meta",
               <<Container("group", "deep", innerId, FALSE)>>, l)>>,
         <<BlocksField("layout", <<Block("y", "inline", 1, inner)>>,
                       NoReferences, l)>>,
         <<BlocksField("layout", <<>>,
               ExplicitRefs(<<BlockRef(Block("y", "ref", 1, inner))>>),
               l)>>,
         <<BlocksField("layout", <<>>, AllGlobal, l)>>,
         <<BlocksField("layout", <<>>, ExplicitRefs(<<SlugRef("x")>>), l)>>}

\* the nesting lists under allowIDField set and not set, with and without
\* locales, beside one global variant whose fields are those of the
\* inline variants
NestingSetups ==
    {Setup(BuildSchemaJob(fields, BuildSchemaOptions(a, FALSE, FALSE),
                          Undefined, FALSE),
           <<Block("x", "global", 0,
                   <<Field("text", "kept",
                           Flags(FALSE, FALSE, TRUE, "undefined")),
                     [type |-> "text", name |-> "shadow",
                      virtual |-> TRUE]>>)>>,
           DefaultBuildSchemaOptions, loc) :
        fields \in NestingFieldLists(TRUE) \cup NestingFieldLists(FALSE),
        a \in BOOLEAN, loc \in {NoLocalization, Localization}}

Setups ==
    SingleFieldSetups \cup InlineVariantSetups \cup NestedUniqueSetups
        \cup CompoundIndexSetups \cup IdFieldSetups \cup NestingSetups

\* a configuration as it is written, before it is sanitized
CompileInit ==
    /\ \E setup \in Setups :
           /\ job = setup.job
           /\ configBlocks = setup.configBlocks
           /\ registryOptions = setup.registryOptions
           /\ localization = setup.localization
    /\ field = BlocksField("layout", <<>>, NoReferences, FALSE)
    /\ pc = "config"
    /\ i = 0
    /\ schemas = EmptyMap
    /\ heap = <<>>
    /\ globalBlockSchemas = EmptyMap
    /\ compiled = [s \in GlobalSlugs |-> 0]
    /\ root = 0
    /\ ret = [op |-> "none"]

\* sanitizeFields: a configuration it rejects goes no further
SanitizeFieldsCall ==
    /\ pc = "config"
    /\ LET r == sanitizeFields(job.configFields)
       IN  /\ ret' = [op |-> "sanitizeFields", error |-> r.error]
           /\ pc' = IF r.error = "none" THEN "start" ELSE "rejected"
    /\ UNCHANGED <<config, i, schemas, heap, globalBlockSchemas, compiled,
                   root>>

\* buildSchema on the sanitized field list, once the registry is stored
BuildSchemaCall ==
    /\ pc = "ready"
    /\ root' = Len(heap) + 1
    /\ heap' = buildSchema(heap, job.buildSchemaOptions, job.configFields,
                           FALSE, Payload, job.compoundIndexes)
    /\ pc' = "compiled"
    /\ UNCHANGED <<config, i, schemas, globalBlockSchemas, compiled, ret>>

CompileNext ==
    \/ SanitizeFieldsCall
    \/ BuildStart
    \/ Pass1Step
    \/ Pass2Step
    \/ BuildReturn
    \/ BuildSchemaCall

CompileSpec == CompileInit /\ [][CompileNext]_vars

(* ------------------- the path maps of a served request ------------------ *)
\* field.editor of a richText field: an object with or without
\* generateSchemaMap, or the function of an unsanitized config
Editor(generateSchemaMap) ==
    [kind |-> "object", generateSchemaMap |-> generateSchemaMap]

UnsanitizedEditor == [kind |-> "function"]

RichTextFields ==
    {[type |-> "richText", name |-> "content"],
     [type |-> "richText", name |-> "content", editor |-> Editor(TRUE)],
     [type |-> "richText", name |-> "content", editor |-> Editor(FALSE)],
     [type |-> "richText", name |-> "content",
      editor |-> UnsanitizedEditor]}

\* the declared fields of a collection or global: fields with a name,
\* containers without one, tabs, polymorphic fields, rich text
EntityFieldLists ==
    {<<TextField("title"), TextField("body")>>,
     <<[type |-> "row",
        fields |-> <<TextField("left"), TextField("right")>>],
       TextField("title")>>,
     <<Container("group", "meta", <<TextField("inner")>>, FALSE),
       [type |-> "collapsible", fields |-> <<TextField("folded")>>]>>,
     <<TabsField(<<[name |-> "seo", fields |-> <<TextField("inner")>>],
                   [label |-> "Content",
                    fields |-> <<TextField("body")>>]>>),
       TextField("title")>>,
     <<Container("array", "items", <<TextField("inner")>>, FALSE),
       [type |-> "group", fields |-> <<TextField("hoisted")>>]>>,
     <<BlocksField("layout", <<Block("y", "inline", 1, InlineFields)>>,
                   AllGlobal, FALSE)>>,
     <<BlocksField("layout", <<>>,
           ExplicitRefs(<<SlugRef("x"),
                          BlockRef(Block("y", "ref", 2, RefFields))>>),
           FALSE)>>}
        \cup {<<TextField("title"), rt>> : rt \in RichTextFields}
        \cup {<<Container("group", "meta", <<rt>>, FALSE),
                TextField("title")>> : rt \in RichTextFields}

\* collection.auth: absent, or an object with disableLocalStrategy
AuthSettings == {"none", "local", "noLocal"}

Entity(slug, fields, auth) ==
    IF auth = "none" THEN [slug |-> slug, fields |-> fields]
    ELSE [slug |-> slug, fields |-> fields,
          auth |-> [disableLocalStrategy |-> auth = "noLocal"]]

\* the slugs a request names: a collection, a global, or neither
Requests ==
    {[collectionSlug |-> "users", globalSlug |-> ""],
     [collectionSlug |-> "unknown", globalSlug |-> ""],
     [collectionSlug |-> "", globalSlug |-> "settings"]}

SchemaMapJob(request, fields, auth) ==
    [kind |-> "schemaMap",
     collectionSlug |-> request.collectionSlug,
     globalSlug |-> request.globalSlug,
     collections |-> <<Entity("posts", <<TextField("title")>>, "local"),
                       Entity("users", fields, auth)>>,
     globals |-> <<Entity("settings", fields, auth)>>]

SchemaMapSetups ==
    {Setup(SchemaMapJob(request, fields, auth), blks,
           DefaultBuildSchemaOptions, NoLocalization) :
        request \in Requests, fields \in EntityFieldLists,
        auth \in AuthSettings,
        blks \in {<<>>, <<GlobalBlock("x"), GlobalBlock("z")>>,
                  <<GlobalBlock("z"), GlobalBlock("x")>>}}

\* a running process asked for the maps of a collection or global
MapInit ==
    /\ \E setup \in SchemaMapSetups :
           /\ job = setup.job
           /\ configBlocks = setup.configBlocks
           /\ registryOptions = setup.registryOptions
           /\ localization = setup.localization
    /\ field = BlocksField("layout", <<>>, NoReferences, FALSE)
    /\ pc = "serving"
    /\ i = 0
    /\ schemas = EmptyMap
    /\ heap = <<>>
    /\ globalBlockSchemas = EmptyMap
    /\ compiled = [s \in GlobalSlugs |-> 0]
    /\ root = 0
    /\ ret = [op |-> "none"]

\* the config the traversals read
MapConfig ==
    [blocks |-> configBlocks, collections |-> job.collections,
     globals |-> job.globals]

\* the collection or global the request names, undefined when none
RequestedEntity ==
    IF job.collectionSlug # ""
    THEN FindEntity(job.collections, job.collectionSlug)
    ELSE FindEntity(job.globals, job.globalSlug)

RequestedSlug ==
    IF job.collectionSlug # "" THEN job.collectionSlug ELSE job.globalSlug

BuildClientFieldSchemaMapCall ==
    /\ pc = "serving"
    /\ job.kind = "schemaMap"
    /\ ret' = [op |-> "buildClientFieldSchemaMap",
               clientFieldSchemaMap |->
                   buildClientFieldSchemaMap(
                       [collectionSlug |-> job.collectionSlug,
                        globalSlug |-> job.globalSlug,
                        config |-> MapConfig])]
    /\ UNCHANGED <<config, pc, i, schemas, heap, globalBlockSchemas,
                   compiled, root>>

\* the maps a server traversal is handed: an empty one, or one that
\* already holds the global variants under the reserved root
InitialMaps == {<<>>, clientGlobalBlockEntries(MapConfig)}

\* the server traversal over the fields of the requested entity, into the
\* map it is handed
TraverseFieldsCall ==
    /\ pc = "serving"
    /\ job.kind = "schemaMap"
    /\ RequestedEntity # Undefined
    /\ \E initial \in InitialMaps :
           LET st == traverseFields(
                         [schemaMap |-> initial, error |-> "none",
                          delegated |-> <<>>],
                         MapConfig, RequestedEntity.fields, 1, <<>>,
                         <<Seg(RequestedSlug)>>)
           IN  ret' = [op |-> "traverseFields", initial |-> initial,
                       schemaMap |-> st.schemaMap, error |-> st.error,
                       delegated |-> st.delegated]
    /\ UNCHANGED <<config, pc, i, schemas, heap, globalBlockSchemas,
                   compiled, root>>

MapNext ==
    \/ BuildClientFieldSchemaMapCall
    \/ TraverseFieldsCall

MapSpec == MapInit /\ [][MapNext]_vars

(* --------------------------- claims C11 - C20 -------------------------- *)
\* a field of the job declares two inline variants with one slug
DeclaresSlugTwice ==
    \E k \in 1..Len(job.configFields) :
        /\ job.configFields[k].type = "blocks"
        /\ \E p, q \in 1..Len(job.configFields[k].blocks) :
               /\ p # q
               /\ job.configFields[k].blocks[p].slug
                      = job.configFields[k].blocks[q].slug

RECURSIVE WithoutLocalized(_)
\* a field list with every localized flag taken off, at every depth
WithoutLocalized(fields) ==
    [k \in 1..Len(fields) |->
        LET f == fields[k]
            sub(blks) == [b \in 1..Len(blks) |->
                             [blks[b] EXCEPT
                                 !.fields = WithoutLocalized(@)]]
            refs(r) == [n \in 1..Len(r) |->
                           IF r[n].kind = "block"
                           THEN [r[n] EXCEPT
                                    !.block.fields = WithoutLocalized(@)]
                           ELSE r[n]]
            f1 == IF "localized" \in DOMAIN f
                  THEN [f EXCEPT !.localized = FALSE] ELSE f
            f2 == IF "fields" \in DOMAIN f1
                  THEN [f1 EXCEPT !.fields = WithoutLocalized(@)] ELSE f1
            f3 == IF "blocks" \in DOMAIN f2
                  THEN [f2 EXCEPT !.blocks = sub(@),
                                  !.blockReferences.refs = refs(@)]
                  ELSE f2
        IN  IF "tabs" \in DOMAIN f3
            THEN [f3 EXCEPT !.tabs = WithoutLocalized(@)] ELSE f3]

\* the schemas buildSchema finds on the heap when it is called
HeapBefore == SubSeq(heap, 1, root - 1)

\* C12: on a model without localization config, the schemas compiled
\* from a field list (descriptors, sparse markers, index registrations,
\* sub-schemas) equal those compiled from the same list with every
\* localized flag removed, for every field kind and every combination of
\* unique, required, index, draftsEnabled and disableUnique.
C12_LocalizedFlagInert ==
    (pc = "compiled" /\ ~localization.enabled) =>
        heap = buildSchema(HeapBefore, job.buildSchemaOptions,
                           WithoutLocalized(job.configFields), FALSE,
                           Payload, job.compoundIndexes)

RECURSIVE Bases(_)
\* the records formatBaseSchema contributed to a descriptor: its own, the
\* one of the element schema of a list, one per locale when localized
Bases(descriptor) ==
    IF "base" \in DOMAIN descriptor THEN {descriptor.base}
    ELSE IF "of" \in DOMAIN descriptor THEN Bases(descriptor.of)
    ELSE IF "localized" \in DOMAIN descriptor
         THEN UNION {Bases(descriptor.type[lc]) :
                        lc \in DOMAIN descriptor.type}
    ELSE {}

\* the top-level fields of the job that the compiled schema holds a key for
CompiledFields ==
    {job.configFields[k] :
        k \in {n \in 1..Len(job.configFields) :
                  /\ "name" \in DOMAIN job.configFields[n]
                  /\ HasPath(root, job.configFields[n].name)}}

\* marked localized and the model has locales
LocalizationEffective(f) ==
    Attr(f, "localized", FALSE) /\ localization.enabled

\* C13: the sparse marker formatBaseSchema gives a field is set exactly
\* when the field is unique with unique constraints not disabled and the
\* field is localization-effective (marked localized on a model with
\* locales), or drafts are enabled, or the field persists data, is neither
\* a group nor a tab and is not required.
C13_SparseExactly ==
    pc = "compiled" =>
        \A f \in CompiledFields :
            \A base \in Bases(DescriptorAt(root, f.name)) :
                base.sparse =
                    (/\ Attr(f, "unique", FALSE)
                     /\ ~job.buildSchemaOptions.disableUnique
                     /\ \/ LocalizationEffective(f)
                        \/ job.buildSchemaOptions.draftsEnabled
                        \/ /\ fieldAffectsData(f)
                           /\ f.type \notin {"group", "tab"}
                           /\ ~Attr(f, "required", FALSE))

RECURSIVE SubSchemas(_)
\* the addresses of the schemas a descriptor refers to: the sub-schema of
\* a group, array or named tab and the schemas of its discriminators
SubSchemas(descriptor) ==
    (IF "sub" \in DOMAIN descriptor THEN {descriptor.sub} ELSE {})
    \cup (IF "discriminators" \in DOMAIN descriptor
          THEN {descriptor.discriminators[k].schema :
                   k \in 1..Len(descriptor.discriminators)}
          ELSE {})
    \cup (IF "of" \in DOMAIN descriptor THEN SubSchemas(descriptor.of)
          ELSE {})
    \cup (IF "localized" \in DOMAIN descriptor
          THEN UNION {SubSchemas(descriptor.type[lc]) :
                         lc \in DOMAIN descriptor.type}
          ELSE {})

RECURSIVE Reachable(_)
\* the schemas reachable from the schemas at addrs
Reachable(addrs) ==
    LET refs(a) == UNION {SubSchemas(heap[a].paths[k].schema) :
                             k \in 1..Len(heap[a].paths)}
        next == addrs \cup UNION {refs(a) : a \in addrs}
    IN  IF next = addrs THEN addrs ELSE Reachable(next)

\* the schema at addr declares something unique: a descriptor or an index
DeclaresUnique(addr) ==
    \/ \E k \in 1..Len(heap[addr].paths) :
           \E base \in Bases(heap[addr].paths[k].schema) : base.unique
    \/ \E k \in 1..Len(heap[addr].indexes) :
           heap[addr].indexes[k].options.unique

\* C14: in a schema compiled with disableUnique set, no descriptor is
\* unique and no index is registered unique, in the schema itself and in
\* every schema reachable from it: sub-schemas of groups, arrays and named
\* tabs, and the variant schemas attached to polymorphic fields, inline or
\* from the global registry.
C14_NothingUnique ==
    (pc = "compiled" /\ job.buildSchemaOptions.disableUnique) =>
        \A addr \in Reachable({root}) : ~DeclaresUnique(addr)

\* the positions of the top-level data fields named id
IdPositions ==
    {k \in 1..Len(job.configFields) :
        /\ "name" \in DOMAIN job.configFields[k]
        /\ job.configFields[k].name = "id"
        /\ job.configFields[k].type # "ui"}

\* the field list of the job without its data fields named id
OtherFields ==
    LET keep == {k \in 1..Len(job.configFields) : k \notin IdPositions}
        nth[n \in 0..Len(job.configFields)] ==
            IF n = 0 THEN <<>>
            ELSE IF n \in keep THEN Append(nth[n - 1], job.configFields[n])
            ELSE nth[n - 1]
    IN  nth[Len(job.configFields)]

\* C15: buildSchema with allowIDField false on a list holding a data field
\* named id gives the schema the primary key type Number (BigInt when the
\* adapter uses big integers) if that field is a number field and String
\* otherwise, never the surrogate ObjectId; it adds no key named id; and
\* its other keys are those compiled from the list without the id field,
\* so a unique title that is not required is unique and sparse.
C15_IdFieldBecomesKey ==
    (pc = "compiled" /\ ~job.buildSchemaOptions.allowIDField
         /\ IdPositions # {}) =>
        LET idField == job.configFields[CHOOSE k \in IdPositions : TRUE]
        IN  /\ heap[root]._id =
                   IF idField.type = "number"
                   THEN IF job.useBigIntForNumberIDs
                        THEN "BigInt" ELSE "Number"
                   ELSE "String"
            /\ heap[root]._id # "ObjectId"
            /\ ~HasPath(root, "id")
            /\ heap[root].paths =
                   buildSchema(HeapBefore, job.buildSchemaOptions,
                               OtherFields, FALSE, Payload,
                               job.compoundIndexes)[root].paths
            /\ \A f \in CompiledFields :
                   (/\ Attr(f, "unique", FALSE)
                    /\ ~Attr(f, "required", FALSE)
                    /\ ~job.buildSchemaOptions.disableUnique) =>
                       \A base \in Bases(DescriptorAt(root, f.name)) :
                           base.unique /\ base.sparse

C15_Witness ==
    /\ pc = "compiled"
    /\ ~job.buildSchemaOptions.allowIDField
    /\ IdPositions # {}
    /\ job.configFields[CHOOSE k \in IdPositions : TRUE].type = "number"
    /\ job.useBigIntForNumberIDs
    /\ heap[root]._id = "BigInt"
    /\ HasPath(root, "title")
    /\ DescriptorAt(root, "title").base.unique
    /\ DescriptorAt(root, "title").base.sparse

RECURSIVE Enums(_)
\* the enumerations of a select or radio descriptor: its own, the one of
\* the element schema of a list, one per locale when localized
Enums(descriptor) ==
    IF "enum" \in DOMAIN descriptor THEN {descriptor.enum}
    ELSE IF "of" \in DOMAIN descriptor THEN Enums(descriptor.of)
    ELSE IF "localized" \in DOMAIN descriptor
         THEN UNION {Enums(descriptor.type[lc]) :
                        lc \in DOMAIN descriptor.type}
    ELSE {}

\* the option values of a field, label/value pairs unwrapped
BareValues(f) ==
    [k \in 1..Len(f.options) |->
        IF "label" \in DOMAIN f.options[k] THEN f.options[k].value
        ELSE f.options[k]]

\* C16: the enumeration compiled for a select field and for a radio field
\* is the list of its bare option values, followed by the null sentinel
\* exactly when drafts are enabled or the field is not required.
C16_EnumWithNull ==
    pc = "compiled" =>
        \A f \in CompiledFields :
            f.type \in {"select", "radio"} =>
                \A enum \in Enums(DescriptorAt(root, f.name)) :
                    enum = IF job.buildSchemaOptions.draftsEnabled
                                  \/ ~Attr(f, "required", FALSE)
                           THEN Append(BareValues(f), Null)
                           ELSE BareValues(f)

\* the keys of the index definition registered for compound index j of the
\* job; the compound indexes are registered last, in their order
RegisteredKeys(j) ==
    LET indexes == heap[root].indexes
        definition == indexes[Len(indexes) - Len(job.compoundIndexes.list)
                                  + j].fields
    IN  {definition[k].path : k \in 1..Len(definition)}

\* the localized path of an index field with the locale in the marker's
\* place
Substituted(indexField, lc) ==
    [k \in 1..Len(indexField.localizedPath) |->
        IF indexField.localizedPath[k] = "<locale>" THEN lc
        ELSE indexField.localizedPath[k]]

\* the keys an index field is to contribute on a model with locales
ExpectedKeys(indexField) ==
    IF indexField.pathHasLocalized
    THEN {Substituted(indexField, lc) : lc \in Range(localization.localeCodes)}
    ELSE {indexField.path}

\* C17: on a model with locales, the index definition registered for a
\* compound index holds, for every field of it beneath a localized
\* ancestor, the locale-substituted path of every locale and not the bare
\* path, for every other field its bare path, and nothing else.
C17_CompoundIndexPerLocale ==
    (pc = "compiled" /\ job.compoundIndexes # Undefined
         /\ localization.enabled) =>
        \A j \in 1..Len(job.compoundIndexes.list) :
            LET fields == job.compoundIndexes.list[j].fields
            IN  /\ RegisteredKeys(j) =
                       UNION {ExpectedKeys(fields[k]) : k \in 1..Len(fields)}
                /\ \A k \in 1..Len(fields) :
                       fields[k].pathHasLocalized =>
                           fields[k].path \notin RegisteredKeys(j)

C17_Witness ==
    /\ pc = "compiled"
    /\ job.compoundIndexes # Undefined
    /\ localization.enabled
    /\ RegisteredKeys(1) = {<<"title">>, <<"meta", "en", "inner">>,
                            <<"meta", "es", "inner">>}

\* the requested collection authenticates with the local strategy
AuthLocal ==
    /\ job.collectionSlug # ""
    /\ RequestedEntity # Undefined
    /\ "auth" \in DOMAIN RequestedEntity
    /\ ~RequestedEntity.auth.disableLocalStrategy

\* the config of the job with authentication switched off everywhere
WithoutAuth(entities) ==
    [k \in 1..Len(entities) |->
        [slug |-> entities[k].slug, fields |-> entities[k].fields]]

MapWithoutAuth ==
    buildClientFieldSchemaMap(
        [collectionSlug |-> job.collectionSlug,
         globalSlug |-> job.globalSlug,
         config |-> [blocks |-> configBlocks,
                     collections |-> WithoutAuth(job.collections),
                     globals |-> job.globals]])

AuthKeys ==
    {<<Seg(RequestedSlug), Seg(baseAuthFields[k].name)>> :
        k \in 1..Len(baseAuthFields)}

\* C18: the client map of a request holds the password and
\* confirm-password entries exactly when the requested collection
\* authenticates with the local strategy; they are then the last entries
\* of the map and the last fields of the root entry, behind the declared
\* fields, every other entry has the key and value it has with
\* authentication off, and the map of a global never holds them.
C18_AuthFieldsAppendedLast ==
    ret.op = "buildClientFieldSchemaMap" =>
        LET map == ret.clientFieldSchemaMap
            off == MapWithoutAuth
            n == Len(baseAuthFields)
            rootKey == <<Seg(RequestedSlug)>>
        IN  /\ \A key \in AuthKeys : SchemaMapHas(map, key) <=> AuthLocal
            /\ job.globalSlug # "" =>
                   \A key \in AuthKeys : ~SchemaMapHas(map, key)
            /\ ~AuthLocal => map = off
            /\ AuthLocal =>
                   /\ Len(map) = Len(off) + n
                   /\ \A k \in 1..n :
                          /\ map[Len(off) + k].key =
                                 <<Seg(RequestedSlug),
                                   Seg(baseAuthFields[k].name)>>
                          /\ map[Len(off) + k].value = baseAuthFields[k]
                   /\ SchemaMapGet(map, rootKey).fields =
                          RequestedEntity.fields \o baseAuthFields
                   /\ \A k \in 1..Len(off) :
                          /\ map[k].key = off[k].key
                          /\ map[k].key # rootKey =>
                                 map[k].value = off[k].value

\* an authenticating collection whose declared fields include one without
\* a name, so that its key holds an index path
C18_Witness ==
    /\ ret.op = "buildClientFieldSchemaMap"
    /\ AuthLocal
    /\ \E k \in 1..Len(ret.clientFieldSchemaMap) :
           \E s \in 1..Len(ret.clientFieldSchemaMap[k].key) :
               "index" \in DOMAIN ret.clientFieldSchemaMap[k].key[s]
    /\ \A key \in AuthKeys : SchemaMapHas(ret.clientFieldSchemaMap, key)

\* a rich-text field with no editor, or whose editor has no
\* generateSchemaMap
LacksGenerateSchemaMap(f) ==
    /\ "type" \in DOMAIN f
    /\ f.type = "richText"
    /\ \/ "editor" \notin DOMAIN f
       \/ f.editor.kind = "function"
       \/ f.editor.kind = "object" /\ ~f.editor.generateSchemaMap

\* the fields the server traversal has met are the values it has set
MetFields == {ret.schemaMap[k].value : k \in 1..Len(ret.schemaMap)}

\* C19: a server traversal that has met a rich-text field with no editor,
\* or with an editor that has no generateSchemaMap, has failed with an
\* error; it has not run to its end without delegating.
C19_MissingCapabilityFails ==
    ret.op = "traverseFields" =>
        ((\E f \in MetFields : LacksGenerateSchemaMap(f)) =>
             ret.error # "none")

(* --------------------------- claims C21 - C30 -------------------------- *)
\* the map a traversal has returned
ResultMap ==
    IF ret.op = "traverseFields" THEN ret.schemaMap
    ELSE ret.clientFieldSchemaMap

TraversalReturned ==
    ret.op \in {"traverseFields", "buildClientFieldSchemaMap"}

IsPrefix(p, key) ==
    Len(p) <= Len(key) /\ SubSeq(key, 1, Len(p)) = p

\* the positions of the polymorphic fields in a map
PolymorphicEntries(map) ==
    {k \in 1..Len(map) :
        /\ "type" \in DOMAIN map[k].value
        /\ map[k].value.type = "blocks"}

InlineSlugsOf(f) ==
    {f.blocks[k].slug : k \in 1..Len(f.blocks)}
        \cup {f.blockReferences.refs[k].slug :
                 k \in {j \in 1..Len(f.blockReferences.refs) :
                           f.blockReferences.refs[j].kind = "block"}}

\* the slugs a polymorphic field takes from the reserved root: every
\* global slug under all-global, the listed slug strings under an explicit
\* subset, less the slugs of its inline variants
ReferencedSlugs(f) ==
    (IF f.blockReferences.kind = "GlobalBlocks"
     THEN {configBlocks[k].slug : k \in 1..Len(configBlocks)}
     ELSE {f.blockReferences.refs[k].slug :
              k \in {j \in 1..Len(f.blockReferences.refs) :
                        f.blockReferences.refs[j].kind = "string"}})
        \ InlineSlugsOf(f)

\* C21: in the map either traversal returns, below the path of a
\* polymorphic field a referenced global variant has at most the one entry
\* <field path>.<slug>, whose value is the definition stored under
\* __global_blocks__.<slug>, and no entry for the variant's fields; this
\* holds with global variants that reference themselves by slug, on which
\* the traversal ends.
C21_ReferencedVariantOneEntry ==
    TraversalReturned =>
        \A k \in PolymorphicEntries(ResultMap) :
            \A s \in ReferencedSlugs(ResultMap[k].value) :
                LET entryKey == Append(ResultMap[k].key, Seg(s))
                IN  \A j \in 1..Len(ResultMap) :
                        IsPrefix(entryKey, ResultMap[j].key) =>
                            /\ ResultMap[j].key = entryKey
                            /\ ResultMap[j].value =
                                   SchemaMapGet(ResultMap,
                                                GlobalBlockSchemaPath(s))

\* a global variant whose polymorphic field lists the variant itself, and
\* a field of the requested entity that lists it by slug
C21_Witness ==
    /\ ret.op = "buildClientFieldSchemaMap"
    /\ SchemaMapHas(ResultMap,
           GlobalBlockSchemaPath("x") \o <<Seg("nested"), Seg("x")>>)
    /\ \E k \in PolymorphicEntries(ResultMap) :
           /\ ResultMap[k].key[1] = Seg(RequestedSlug)
           /\ ResultMap[k].value.blockReferences.kind = "array"
           /\ SchemaMapHas(ResultMap, Append(ResultMap[k].key, Seg("x")))

\* the listed slug strings for which the registry holds no shell
IsUnknownEntry(blockRef) ==
    blockRef.kind = "string" /\ blockRef.slug \notin DOMAIN globalBlockSchemas

KnownEntry(blockRef) == ~IsUnknownEntry(blockRef)

UnknownListed ==
    {field.blockReferences.refs[k].slug :
        k \in {j \in 1..Len(field.blockReferences.refs) :
                  IsUnknownEntry(field.blockReferences.refs[j])}}

\* the field with the unknown slug strings taken off its subset
WithoutUnknown ==
    [field EXCEPT !.blockReferences.refs = SelectSeq(@, KnownEntry)]

\* the field has been compiled and no query has touched it since
JustCompiled == pc = "serving" /\ ret.op = "none"

TraversalConfig ==
    [blocks |-> configBlocks, collections |-> <<>>, globals |-> <<>>]

\* both traversals over a field list, from a map that holds the global
\* variants under the reserved root
ClientMapOf(f) ==
    traverseFieldsClient(clientGlobalBlockEntries(TraversalConfig),
                         TraversalConfig, <<f>>, 1, <<>>, <<Seg("pages")>>)

ServerMapOf(f) ==
    traverseFields([schemaMap |-> clientGlobalBlockEntries(TraversalConfig),
                    error |-> "none", delegated |-> <<>>],
                   TraversalConfig, <<f>>, 1, <<>>, <<Seg("pages")>>)

KeysOf(map) == [k \in 1..Len(map) |-> map[k].key]

\* two maps with the same keys in the same order and, but for the entry of
\* the field itself, the same values
SameButField(m1, m2) ==
    /\ KeysOf(m1) = KeysOf(m2)
    /\ \A k \in 1..Len(m1) :
           m1[k].key # <<Seg("pages"), Seg(field.name)>> =>
               m1[k].value = m2[k].value

\* C22: a slug string of an explicit subset for which the registry holds
\* no shell raises no error and adds nothing: the compiled field has no
\* discriminator for it unless an inline variant carries the slug, the
\* compiled heap and both path maps are those of the same field with the
\* entry taken off the list, and the maps hold no entry for it.
C22_UnknownSlugOmitted ==
    (JustCompiled /\ field.blockReferences.kind = "array") =>
        /\ heap = buildSchema(HeapBefore, DefaultBuildSchemaOptions,
                              <<WithoutUnknown>>, FALSE, Payload, Undefined)
        /\ \A s \in UnknownListed \ InlineSlugsOf(field) :
               /\ \A dl \in FieldDiscriminatorLists :
                      s \notin Range(AttachedSlugs(dl))
               /\ ~SchemaMapHas(ClientMapOf(field),
                                <<Seg("pages"), Seg(field.name), Seg(s)>>)
               /\ ~SchemaMapHas(ServerMapOf(field).schemaMap,
                                <<Seg("pages"), Seg(field.name), Seg(s)>>)
        /\ ServerMapOf(field).error = "none"
        /\ SameButField(ClientMapOf(field), ClientMapOf(WithoutUnknown))
        /\ SameButField(ServerMapOf(field).schemaMap,
                        ServerMapOf(WithoutUnknown).schemaMap)

\* a subset that lists an unknown slug string and then an inline object
\* with that slug, which is compiled and attached
C22_Witness ==
    /\ JustCompiled
    /\ field.blockReferences.kind = "array"
    /\ Len(field.blockReferences.refs) = 2
    /\ IsUnknownEntry(field.blockReferences.refs[1])
    /\ field.blockReferences.refs[2].kind = "block"
    /\ field.blockReferences.refs[2].slug = field.blockReferences.refs[1].slug
    /\ field.blocks = <<>>
    /\ \A dl \in FieldDiscriminatorLists :
           AttachedSlugs(dl) = <<field.blockReferences.refs[1].slug>>

RECURSIVE VirtualNames(_)
\* the names of the virtual fields and virtual named tabs of a field
\* list, at any depth: in containers, tabs, inline variants and inline
\* objects of an explicit subset
VirtualNames(fields) ==
    UNION {LET f == fields[k]
           IN  (IF fieldIsVirtual(f) /\ "name" \in DOMAIN f
                THEN {f.name} ELSE {})
               \cup (IF "fields" \in DOMAIN f
                     THEN VirtualNames(f.fields) ELSE {})
               \cup (IF "tabs" \in DOMAIN f
                     THEN VirtualNames(f.tabs) ELSE {})
               \cup (IF "blocks" \in DOMAIN f
                     THEN VirtualNames(f.blocks) ELSE {})
               \cup (IF "blockReferences" \in DOMAIN f
                     THEN UNION {VirtualNames(
                                     f.blockReferences.refs[j].block.fields) :
                                    j \in {n \in 1..Len(f.blockReferences.refs) :
                                              f.blockReferences.refs[n].kind
                                                  = "block"}}
                     ELSE {}) :
           k \in 1..Len(fields)}

\* the compiled schema and every schema reachable from it
CompiledSchemas == Reachable({root})

\* C23: once a field list is compiled, no schema reachable from the
\* compiled schema (sub-schemas of groups, arrays and named tabs, shells of
\* global variants, schemas of inline variants) has a key named after a
\* virtual field of the list or of a global variant.
C23_NoVirtualKey ==
    pc = "compiled" =>
        \A addr \in CompiledSchemas :
            \A name \in VirtualNames(job.configFields)
                            \cup VirtualNames(configBlocks) :
                ~HasPath(addr, name)

KeyNames(addr) == [k \in 1..Len(heap[addr].paths) |-> heap[addr].paths[k].name]

RECURSIVE Flatten(_)
\* a field list with its merge containers (row, collapsible, a group or a
\* tab without a name) replaced by their fields, virtual fields and
\* virtual tabs left out; a tab with a name stands as a container of type
\* "tab"
Flatten(fields) ==
    LET one(f) ==
            IF fieldIsVirtual(f) THEN <<>>
            ELSE IF "tabs" \in DOMAIN f THEN Flatten(f.tabs)
            ELSE IF "type" \notin DOMAIN f
                 THEN IF "name" \in DOMAIN f
                      THEN <<[type |-> "tab", name |-> f.name,
                              fields |-> f.fields]>>
                      ELSE Flatten(f.fields)
            ELSE IF f.type \in {"row", "collapsible"}
                        \/ (f.type = "group" /\ "name" \notin DOMAIN f)
                 THEN Flatten(f.fields)
            ELSE <<f>>
        step[k \in 0..Len(fields)] ==
            IF k = 0 THEN <<>> ELSE step[k - 1] \o one(fields[k])
    IN  step[Len(fields)]

\* the keys a schema is to hold for a field list: one per field of the
\* flattened list that a generator exists for, less a field named id that
\* became the primary key
ExpectedKeyNames(fields, allowIDField) ==
    LET keep(f) == /\ f.type # "ui"
                   /\ allowIDField \/ f.name # "id"
        flat == SelectSeq(Flatten(fields), keep)
    IN  [k \in 1..Len(flat) |-> flat[k].name]

IsNamespaceContainer(f) == f.type \in {"group", "array", "tab"}

RECURSIVE Conforms(_, _, _)
\* the schema at addr holds the keys expected of the field list, and under
\* the key of each namespace container one sub-schema that conforms to
\* the container's fields
Conforms(addr, fields, allowIDField) ==
    /\ KeyNames(addr) = ExpectedKeyNames(fields, allowIDField)
    /\ LET containers == SelectSeq(Flatten(fields), IsNamespaceContainer)
       IN  \A k \in 1..Len(containers) :
               LET subs == SubSchemas(DescriptorAt(addr, containers[k].name))
               IN  /\ Cardinality(subs) = 1
                   /\ \A sub \in subs :
                          Conforms(sub, containers[k].fields,
                                   containers[k].type = "array")

ClientCounterpart ==
    traverseFieldsClient(ret.initial, MapConfig, RequestedEntity.fields, 1,
                         <<>>, <<Seg(RequestedSlug)>>)

HoldsRichText(map) ==
    \E k \in 1..Len(map) :
        /\ "type" \in DOMAIN map[k].value
        /\ map[k].value.type = "richText"

\* C25: on a field list without rich-text fields, the server traversal
\* and the client traversal, started from the same map and the same
\* parent path, leave maps with the same keys in the same order.
C25_SameKeysBothTraversals ==
    (ret.op = "traverseFields" /\ ~HoldsRichText(ClientCounterpart)) =>
        /\ ret.error = "none"
        /\ KeysOf(ret.schemaMap) = KeysOf(ClientCounterpart)

\* a traversal from a map that holds the reserved root, over a list with
\* a key that carries an index path
C25_Witness ==
    /\ ret.op = "traverseFields"
    /\ ~HoldsRichText(ClientCounterpart)
    /\ ret.initial # <<>>
    /\ Len(ret.schemaMap) > Len(ret.initial)
    /\ \E k \in 1..Len(ret.schemaMap) :
           \E s \in 1..Len(ret.schemaMap[k].key) :
               "index" \in DOMAIN ret.schemaMap[k].key[s]

\* C26: for the compiled polymorphic field and every slug asked of the
\* resolver, resolveBlock returns a variant exactly when the storage
\* builder attached a discriminator for that slug, on every discriminator
\* path of the field; the registry holds a shell for every global slug.
C26_ResolverAgreesWithBuilder ==
    (Resolved /\ root # 0) =>
        \A dl \in FieldDiscriminatorLists :
            ret.value # Undefined <=>
                ret.blockType \in Range(AttachedSlugs(dl))

\* C27: in the map buildClientFieldSchemaMap returns, every polymorphic
\* field with policy all-global, those of the global variants under the
\* reserved root included, has the entry <field path>.<slug> for every
\* global slug that none of its inline variants carries.
C27_AllGlobalEntriesComplete ==
    ret.op = "buildClientFieldSchemaMap" =>
        \A k \in PolymorphicEntries(ResultMap) :
            ResultMap[k].value.blockReferences.kind = "GlobalBlocks" =>
                \A s \in SlugsOf(configBlocks)
                             \ SlugsOf(ResultMap[k].value.blocks) :
                    SchemaMapHas(ResultMap,
                                 Append(ResultMap[k].key, Seg(s)))

HoldsIdField(fields) ==
    \E k \in 1..Len(fields) :
        "type" \in DOMAIN fields[k] /\ IsIdField(fields[k])

\* the schema at addr has no identity key: none converted from a field,
\* and the implicit one switched off
NoIdentityKey(addr) ==
    /\ heap[addr]._id = "ObjectId"
    /\ heap[addr].options # Undefined
    /\ ~heap[addr].options._id

RECURSIVE NestedIdKept(_, _)
\* under every named group, array and named tab of the field list compiled
\* into the schema at addr, at any depth, a data field named id is a key
\* named id of the sub-schema and the sub-schema has no identity key
NestedIdKept(addr, fields) ==
    LET containers == SelectSeq(Flatten(fields), IsNamespaceContainer)
    IN  \A k \in 1..Len(containers) :
            \A sub \in SubSchemas(DescriptorAt(addr, containers[k].name)) :
                /\ HoldsIdField(containers[k].fields) =>
                       HasPath(sub, "id") /\ NoIdentityKey(sub)
                /\ NestedIdKept(sub, containers[k].fields)

\* C28: in a compiled schema, a data field named id nested in a named
\* group, a named tab or an array is an ordinary key named id of that
\* sub-schema, and the sub-schema declares no identity key.
C28_NestedIdIsOrdinary ==
    pc = "compiled" => NestedIdKept(root, job.configFields)

\* the schema of the variant when the field takes the declaration as its
\* one inline variant: buildSchema allocates the schema of the field list
\* at root and the blocks generator the variant schema right after it
CompiledInline(f, variant) ==
    buildSchema(HeapBefore, job.buildSchemaOptions,
                <<[f EXCEPT !.blocks = <<variant>>,
                            !.blockReferences = NoReferences]>>,
                FALSE, Payload, Undefined)[root + 1]

\* C29: for every polymorphic field of a compiled list and every global
\* variant attached to it by reference, the variant schema attached (the
\* shell of the registry) is the schema the same declaration yields when
\* it is attached to that field inline, that is compiled with
\* parentIsLocalized = parentIsLocalized OR the field's localized flag.
C29_VariantSchemaSameInlineOrByReference ==
    pc = "compiled" =>
        \A k \in 1..Len(job.configFields) :
            job.configFields[k].type = "blocks" =>
                \A n \in 1..Len(configBlocks) :
                    configBlocks[n].slug
                        \in ReferencedSlugs(job.configFields[k]) =>
                        heap[globalBlockSchemas[configBlocks[n].slug]] =
                            CompiledInline(job.configFields[k],
                                           configBlocks[n])

IsVariantObject(e) == "fields" \in DOMAIN e

\* C30: for the list getBlocksForField returns for a field and every
\* slug, the slug is in the list (as the slug of a variant or as a slug
\* string) exactly when resolveBlock returns a variant for it on the same
\* field, and for each variant object of the list resolveBlock returns
\* that object for its slug.
C30_ListAgreesWithResolver ==
    ret.op = "getBlocksForField" =>
        \A blockType \in BlockTypes :
            LET resolved == resolveBlock(blockType, field, configBlocks)
            IN  /\ blockType \in Range(EntrySlugs(ret.value)) <=>
                       resolved # Undefined
                /\ \A k \in 1..Len(ret.value) :
                       (/\ IsVariantObject(ret.value[k])
                        /\ ret.value[k].slug = blockType) =>
                           resolved = ret.value[k]

====
